---- MODULE Spec2Model ----
(***************************************************************************)
(* State-machine model of gedit's multi-notebook (pane manager,            *)
(* gedit/gedit-multi-notebook.c) and of one GeditTab (document tab         *)
(* controller, gedit/gedit-tab.c).                                         *)
(*                                                                         *)
(* Every handler of the C code is an operator that maps a record holding   *)
(* the private fields of the object to the record after the handler has    *)
(* returned; the signals a handler emits are appended to the field         *)
(* "emitted" together with what an observer connected to the signal sees   *)
(* at that instant.  An action of the specification is one call that       *)
(* enters the object from outside (public API, toolkit event, timer or     *)
(* asynchronous completion).                                               *)
(***************************************************************************)
EXTENDS Integers, Sequences, FiniteSets, TLC

\* ------------------------------------------------------------------------
\* Bounds of the model
\* ------------------------------------------------------------------------
MaxNotebooks == 3
MaxTabs == 2

NotebookIds == 1..MaxNotebooks
TabIds == 1..MaxTabs
NULL == 0
MainNotebook == 1

VARIABLES notebooks, pages, current, active_notebook, active_tab, total_tabs, removing_notebook, emitted, called, gedit_tab, encodings, can_close

mvars == <<notebooks, pages, current, active_notebook, active_tab, total_tabs, removing_notebook, emitted, called>>

tvars == <<gedit_tab>>

evars == <<encodings>>

cvars == <<can_close>>

vars == <<mvars, tvars, evars, cvars>>

\* ------------------------------------------------------------------------
\* Sequences
\* ------------------------------------------------------------------------
Range(s) == {s[i] : i \in 1..Len(s)}

IndexOf(s, x) == IF x \in Range(s) THEN CHOOSE i \in 1..Len(s) : s[i] = x /\ \A j \in 1..(i - 1) : s[j] # x ELSE 0

RemoveElem(s, x) == SelectSeq(s, LAMBDA y : y # x)

InsertAt(s, pos, x) == SubSeq(s, 1, pos - 1) \o <<x>> \o SubSeq(s, pos, Len(s))

RECURSIVE SumPages(_, _)
SumPages(pgs, nbs) == IF nbs = <<>> THEN 0 ELSE Len(pgs[Head(nbs)]) + SumPages(pgs, Tail(nbs))

\* ------------------------------------------------------------------------
\* The private structure of the multi-notebook as a record.  "blocked" is
\* the set of notebooks whose set-focus-child and switch-page handlers are
\* blocked (g_signal_handlers_block_by_func); it is empty between calls.
\* ------------------------------------------------------------------------
Multi == [notebooks |-> notebooks, pages |-> pages, current |-> current, active_notebook |-> active_notebook, active_tab |-> active_tab, total_tabs |-> total_tabs, removing_notebook |-> removing_notebook, emitted |-> <<>>, blocked |-> {}]

Snapshot(m) == [notebooks |-> m.notebooks, n_pages |-> [n \in NotebookIds |-> Len(m.pages[n])], total_tabs |-> m.total_tabs, active_notebook |-> m.active_notebook, active_tab |-> m.active_tab]

\* g_signal_emit / g_object_notify: the observer runs synchronously and sees
\* the fields as they are at the emission.
g_signal_emit(m, sig, notebook, tab) == [m EXCEPT !.emitted = Append(@, [sig |-> sig, notebook |-> notebook, tab |-> tab, seen |-> Snapshot(m)])]

g_object_notify(m, prop) == g_signal_emit(m, prop, NULL, NULL)

\* ------------------------------------------------------------------------
\* GtkNotebook queries
\* ------------------------------------------------------------------------
gtk_notebook_get_n_pages(m, nb) == Len(m.pages[nb])

gtk_notebook_page_num(m, nb, tab) == IndexOf(m.pages[nb], tab) - 1

gtk_notebook_get_current_page(m, nb) == m.current[nb]

gtk_notebook_get_nth_page(m, nb, n) == IF Len(m.pages[nb]) = 0 THEN NULL ELSE IF n < 0 THEN m.pages[nb][Len(m.pages[nb])] ELSE IF n < Len(m.pages[nb]) THEN m.pages[nb][n + 1] ELSE NULL

\* ------------------------------------------------------------------------
\* Handlers of gedit-multi-notebook.c
\* ------------------------------------------------------------------------
notebook_switch_page(m, book, page_num) ==
  LET tab == gtk_notebook_get_nth_page(m, book, page_num)
  IN  IF tab # m.active_tab
        THEN g_object_notify([m EXCEPT !.active_tab = tab], "active-tab")
        ELSE m

notebook_set_focus(m, container) ==
  IF container # m.active_notebook
    THEN LET m1 == [m EXCEPT !.active_notebook = container]
             page_num == gtk_notebook_get_current_page(m1, container)
             m2 == notebook_switch_page(m1, container, page_num)
         IN  g_object_notify(m2, "active-notebook")
    ELSE m

\* Delivery of a notebook's "switch-page" and "set-focus-child" signals to
\* the handlers connected by connect_notebook_signals.
signal_switch_page(m, book, page_num) == IF book \in Range(m.notebooks) /\ book \notin m.blocked THEN notebook_switch_page(m, book, page_num) ELSE m

signal_set_focus_child(m, book) == IF book \in Range(m.notebooks) /\ book \notin m.blocked THEN notebook_set_focus(m, book) ELSE m

\* gtk_widget_grab_focus on a notebook: the focus moves into the current
\* page of the notebook, if it has one.
gtk_widget_grab_focus(m, nb) == IF Len(m.pages[nb]) > 0 THEN signal_set_focus_child(m, nb) ELSE m

\* gtk_notebook_set_current_page: a negative page_num selects the last page,
\* an out-of-range one is ignored, switch-page is emitted when the page changes.
gtk_notebook_set_current_page(m, nb, page_num) ==
  LET n == Len(m.pages[nb])
      target == IF page_num < 0 THEN n - 1 ELSE page_num
  IN  IF n = 0 \/ target >= n \/ target = m.current[nb]
        THEN m
        ELSE signal_switch_page([m EXCEPT !.current[nb] = target], nb, target)

RECURSIVE remove_notebook(_, _)
RECURSIVE notebook_page_removed(_, _, _)
RECURSIVE gtk_widget_destroy_notebook(_, _)

\* Variant: the emptied notebook is removed whatever its page count.
notebook_page_removed_anycount(m, notebook, child) ==
  LET m1 == [m EXCEPT !.total_tabs = @ - 1]
      last_notebook == (Len(m1.notebooks) = 1)
      m2 == IF m1.total_tabs = 0
              THEN g_object_notify([m1 EXCEPT !.active_tab = NULL], "active-tab")
              ELSE m1
      m3 == IF ~m2.removing_notebook /\ ~last_notebook
              THEN remove_notebook(m2, notebook)
              ELSE m2
  IN  g_signal_emit(m3, "tab-removed", notebook, child)

\* Variant: tab-removed is emitted before the emptied notebook is removed.
notebook_page_removed_emit_first(m, notebook, child) ==
  LET m1 == [m EXCEPT !.total_tabs = @ - 1]
      num_tabs == gtk_notebook_get_n_pages(m1, notebook)
      last_notebook == (Len(m1.notebooks) = 1)
      m2 == IF m1.total_tabs = 0
              THEN g_object_notify([m1 EXCEPT !.active_tab = NULL], "active-tab")
              ELSE m1
      m3 == g_signal_emit(m2, "tab-removed", notebook, child)
  IN  IF num_tabs = 0 /\ ~m3.removing_notebook /\ ~last_notebook
        THEN remove_notebook(m3, notebook)
        ELSE m3

notebook_page_removed(m, notebook, child) ==
  LET m1 == [m EXCEPT !.total_tabs = @ - 1]
      num_tabs == gtk_notebook_get_n_pages(m1, notebook)
      last_notebook == (Len(m1.notebooks) = 1)
      m2 == IF m1.total_tabs = 0
              THEN g_object_notify([m1 EXCEPT !.active_tab = NULL], "active-tab")
              ELSE m1
      m3 == IF num_tabs = 0 /\ ~m2.removing_notebook /\ ~last_notebook
              THEN remove_notebook(m2, notebook)
              ELSE m2
  IN  g_signal_emit(m3, "tab-removed", notebook, child)

\* gtk_widget_destroy of a notebook: every page it still holds is removed
\* (page-removed is emitted for each, no switch-page during destruction).
gtk_widget_destroy_notebook(m, nb) ==
  IF m.pages[nb] = <<>>
    THEN [m EXCEPT !.current[nb] = -1]
    ELSE LET child == Head(m.pages[nb])
             m1 == [m EXCEPT !.pages[nb] = Tail(@)]
         IN  gtk_widget_destroy_notebook(notebook_page_removed(m1, nb, child), nb)

\* Variant: without the refusal for the only notebook of the list.
remove_notebook_unguarded(m, notebook) ==
  LET cur == IndexOf(m.notebooks, notebook)
      new_notebook == IF cur < Len(m.notebooks) THEN m.notebooks[cur + 1] ELSE m.notebooks[1]
      m1 == [m EXCEPT !.removing_notebook = TRUE]
      m2 == gtk_widget_destroy_notebook(m1, notebook)
      m3 == [m2 EXCEPT !.notebooks = RemoveElem(@, notebook)]
      m4 == [m3 EXCEPT !.removing_notebook = FALSE]
      m5 == gtk_widget_grab_focus(m4, new_notebook)
  IN  g_signal_emit(m5, "notebook-removed", notebook, NULL)

\* Variant: the notebook is destroyed but stays in the list.
remove_notebook_keeplist(m, notebook) ==
  IF Len(m.notebooks) = 1
    THEN m
    ELSE LET m1 == [m EXCEPT !.removing_notebook = TRUE]
             m2 == gtk_widget_destroy_notebook(m1, notebook)
             m4 == [m2 EXCEPT !.removing_notebook = FALSE]
         IN  m4

remove_notebook(m, notebook) ==
  IF Len(m.notebooks) = 1
    THEN m
    ELSE LET cur == IndexOf(m.notebooks, notebook)
             new_notebook == IF cur < Len(m.notebooks) THEN m.notebooks[cur + 1] ELSE m.notebooks[1]
             m1 == [m EXCEPT !.removing_notebook = TRUE]
             m2 == gtk_widget_destroy_notebook(m1, notebook)
             m3 == [m2 EXCEPT !.notebooks = RemoveElem(@, notebook)]
             m4 == [m3 EXCEPT !.removing_notebook = FALSE]
             m5 == gtk_widget_grab_focus(m4, new_notebook)
         IN  g_signal_emit(m5, "notebook-removed", notebook, NULL)

\* Variant: the counter is not incremented.
notebook_page_added_nocount(m, notebook, child) == g_signal_emit(m, "tab-added", notebook, child)

notebook_page_added(m, notebook, child) ==
  LET m1 == [m EXCEPT !.total_tabs = @ + 1]
  IN  g_signal_emit(m1, "tab-added", notebook, child)

add_notebook(m, notebook, main_container) ==
  LET m1 == [m EXCEPT !.notebooks = Append(@, notebook), !.pages[notebook] = <<>>, !.current[notebook] = -1]
  IN  g_signal_emit(m1, "notebook-added", notebook, NULL)

\* ------------------------------------------------------------------------
\* GeditNotebook operations used by the multi-notebook and by the window
\* ------------------------------------------------------------------------
\* gedit_notebook_add_tab: insert the page (position -1 appends), which
\* selects it when the notebook was empty and then emits page-added; with
\* jump_to the page is selected and its view grabs the focus.
gedit_notebook_add_tab(m, nb, tab, position, jump_to) ==
  LET n == Len(m.pages[nb])
      pos == IF position < 0 \/ position > n THEN n ELSE position
      cur == m.current[nb]
      m1 == [m EXCEPT !.pages[nb] = InsertAt(@, pos + 1, tab), !.current[nb] = IF n = 0 THEN 0 ELSE IF cur >= pos THEN cur + 1 ELSE cur]
      m2 == IF n = 0 THEN signal_switch_page(m1, nb, 0) ELSE m1
      m3 == notebook_page_added(m2, nb, tab)
      m4 == IF jump_to THEN gtk_notebook_set_current_page(m3, nb, pos) ELSE m3
  IN  IF jump_to THEN signal_set_focus_child(m4, nb) ELSE m4

\* gedit_notebook_remove_tab: when the page removed is the selected one and
\* others remain, the notebook first selects another page (succ), then the
\* page is removed and page-removed is emitted.
gedit_notebook_remove_tab(m, nb, tab, succ) ==
  LET idx == gtk_notebook_page_num(m, nb, tab)
      n == Len(m.pages[nb])
      m1 == IF idx = m.current[nb] /\ n > 1
              THEN gtk_notebook_set_current_page(m, nb, gtk_notebook_page_num(m, nb, succ))
              ELSE m
      sel == gtk_notebook_get_nth_page(m1, nb, m1.current[nb])
      left == RemoveElem(m1.pages[nb], tab)
      m2 == [m1 EXCEPT !.pages[nb] = left, !.current[nb] = IndexOf(left, sel) - 1]
  IN  IF nb \in Range(m2.notebooks) THEN notebook_page_removed(m2, nb, tab) ELSE m2

\* gedit_notebook_remove_all_tabs: every page is removed in turn, the
\* following page being selected when the selected one goes.
RECURSIVE gedit_notebook_remove_all_tabs(_, _)
gedit_notebook_remove_all_tabs(m, nb) ==
  IF m.pages[nb] = <<>>
    THEN m
    ELSE LET tab == Head(m.pages[nb])
             succ == IF Len(m.pages[nb]) > 1 THEN m.pages[nb][2] ELSE NULL
         IN  gedit_notebook_remove_all_tabs(gedit_notebook_remove_tab(m, nb, tab, succ), nb)

\* gedit_notebook_new / _gedit_tab_new: a widget that does not exist yet.
gedit_notebook_new(m) == CHOOSE n \in NotebookIds \ {MainNotebook} : n \notin Range(m.notebooks) /\ \A k \in NotebookIds \ {MainNotebook} : k \notin Range(m.notebooks) => n <= k

TabsIn(m) == UNION {Range(m.pages[n]) : n \in NotebookIds}

FreeTabs(m) == TabIds \ (TabsIn(m) \cup {m.active_tab})

gedit_tab_new(m) == CHOOSE t \in FreeTabs(m) : \A u \in FreeTabs(m) : t <= u

\* ------------------------------------------------------------------------
\* Public functions of gedit-multi-notebook.c
\* ------------------------------------------------------------------------
RECURSIVE get_page_num_loop(_, _, _, _)
\* Variant: the page counts of the preceding notebooks are not accumulated.
get_page_num_loop_local(m, l, tab, real_page_num) ==
  IF l = <<>>
    THEN real_page_num
    ELSE LET page_num == gtk_notebook_page_num(m, Head(l), tab)
         IN  IF page_num # -1
               THEN real_page_num + page_num
               ELSE get_page_num_loop(m, Tail(l), tab, real_page_num)

get_page_num_loop(m, l, tab, real_page_num) ==
  IF l = <<>>
    THEN real_page_num
    ELSE LET page_num == gtk_notebook_page_num(m, Head(l), tab)
         IN  IF page_num # -1
               THEN real_page_num + page_num
               ELSE get_page_num_loop(m, Tail(l), tab, real_page_num + gtk_notebook_get_n_pages(m, Head(l)))

gedit_multi_notebook_get_page_num(m, tab) == get_page_num_loop(m, m.notebooks, tab, 0)

\* The loop of gedit_multi_notebook_set_current_page: the notebook it stops
\* at (NULL when it runs off the list) and the page number inside it.
RECURSIVE set_current_page_loop(_, _, _, _, _)
\* Variant: the comparison is off by one.
set_current_page_loop_offbyone(m, l, page_num, pages_, single_num) ==
  IF l = <<>>
    THEN [notebook |-> NULL, single_num |-> single_num]
    ELSE LET p == gtk_notebook_get_n_pages(m, Head(l))
         IN  IF (pages_ + p) >= page_num
               THEN [notebook |-> Head(l), single_num |-> single_num]
               ELSE set_current_page_loop(m, Tail(l), page_num, pages_ + p, single_num - p)

set_current_page_loop(m, l, page_num, pages_, single_num) ==
  IF l = <<>>
    THEN [notebook |-> NULL, single_num |-> single_num]
    ELSE LET p == gtk_notebook_get_n_pages(m, Head(l))
         IN  IF (pages_ + p - 1) >= page_num
               THEN [notebook |-> Head(l), single_num |-> single_num]
               ELSE set_current_page_loop(m, Tail(l), page_num, pages_ + p, single_num - p)

set_current_page_target(m, page_num) == set_current_page_loop(m, m.notebooks, page_num, 0, page_num)

gedit_multi_notebook_set_current_page(m, page_num) ==
  LET t == set_current_page_target(m, page_num)
      m1 == IF t.notebook # m.active_notebook THEN gtk_widget_grab_focus(m, t.notebook) ELSE m
  IN  gtk_notebook_set_current_page(m1, t.notebook, t.single_num)

\* The notebook of the list that holds the tab (first match), NULL if none.
RECURSIVE find_notebook(_, _, _)
find_notebook(m, l, tab) == IF l = <<>> THEN NULL ELSE IF gtk_notebook_page_num(m, Head(l), tab) # -1 THEN Head(l) ELSE find_notebook(m, Tail(l), tab)

gedit_multi_notebook_set_active_tab(m, tab) ==
  LET l == find_notebook(m, m.notebooks, tab)
  IN  IF l = NULL
        THEN m
        ELSE LET m1 == gtk_notebook_set_current_page(m, l, gtk_notebook_page_num(m, l, tab))
             IN  IF l # m1.active_notebook THEN gtk_widget_grab_focus(m1, l) ELSE m1

RECURSIVE gedit_multi_notebook_close_tabs(_, _)
gedit_multi_notebook_close_tabs(m, tabs) ==
  IF tabs = <<>>
    THEN m
    ELSE LET tab == Head(tabs)
             nbs == find_notebook(m, m.notebooks, tab)
             n == Len(m.pages[nbs])
             succ == IF n > 1 THEN (IF m.pages[nbs][n] # tab THEN m.pages[nbs][n] ELSE m.pages[nbs][n - 1]) ELSE NULL
         IN  gedit_multi_notebook_close_tabs(gedit_notebook_remove_tab(m, nbs, tab, succ), Tail(tabs))

RECURSIVE close_all_tabs_loop(_, _)
close_all_tabs_loop(m, nbs) == IF nbs = <<>> THEN m ELSE close_all_tabs_loop(gedit_notebook_remove_all_tabs(m, Head(nbs)), Tail(nbs))

\* Variant: the loop walks the list itself, not a copy of it.
RECURSIVE close_all_tabs_live_loop(_, _)
close_all_tabs_live_loop(m, i) == IF i > Len(m.notebooks) THEN m ELSE close_all_tabs_live_loop(gedit_notebook_remove_all_tabs(m, m.notebooks[i]), i + 1)

gedit_multi_notebook_close_all_tabs_live(m) == close_all_tabs_live_loop(m, 1)

gedit_multi_notebook_close_all_tabs(m) == close_all_tabs_loop(m, m.notebooks)

gedit_multi_notebook_add_new_notebook(m) ==
  LET notebook == gedit_notebook_new(m)
      m1 == add_notebook(m, notebook, FALSE)
      tab == gedit_tab_new(m1)
      m2 == [m1 EXCEPT !.blocked = @ \cup {notebook}]
      m3 == gedit_notebook_add_tab(m2, notebook, tab, -1, TRUE)
      m4 == [m3 EXCEPT !.blocked = @ \ {notebook}]
  IN  notebook_set_focus(m4, notebook)

gedit_multi_notebook_remove_active_notebook(m) == gedit_notebook_remove_all_tabs(m, m.active_notebook)

gedit_multi_notebook_previous_notebook(m) ==
  LET cur == IndexOf(m.notebooks, m.active_notebook)
      notebook == IF cur > 1 THEN m.notebooks[cur - 1] ELSE m.notebooks[Len(m.notebooks)]
  IN  gtk_widget_grab_focus(m, notebook)

gedit_multi_notebook_next_notebook(m) ==
  LET cur == IndexOf(m.notebooks, m.active_notebook)
      notebook == IF cur < Len(m.notebooks) THEN m.notebooks[cur + 1] ELSE m.notebooks[1]
  IN  gtk_widget_grab_focus(m, notebook)

gedit_multi_notebook_init ==
  [notebooks |-> <<MainNotebook>>, pages |-> [n \in NotebookIds |-> <<>>], current |-> [n \in NotebookIds |-> -1], active_notebook |-> MainNotebook, active_tab |-> NULL, total_tabs |-> 0, removing_notebook |-> FALSE, emitted |-> <<>>, blocked |-> {}]

\* ------------------------------------------------------------------------
\* Actions of the pane manager: one call from outside each.  "called"
\* records the call and what the fields were when it was made.
\* ------------------------------------------------------------------------
Call(op, notebook, tab, arg) == [op |-> op, notebook |-> notebook, tab |-> tab, arg |-> arg, pre |-> Snapshot(Multi)]

Assign(m, c) ==
  /\ notebooks' = m.notebooks
  /\ pages' = m.pages
  /\ current' = m.current
  /\ active_notebook' = m.active_notebook
  /\ active_tab' = m.active_tab
  /\ total_tabs' = m.total_tabs
  /\ removing_notebook' = m.removing_notebook
  /\ emitted' = m.emitted
  /\ called' = c
  /\ UNCHANGED <<tvars, evars, cvars>>

RECURSIVE SetToSeq(_)
SetToSeq(S) == IF S = {} THEN <<>> ELSE LET x == CHOOSE y \in S : \A z \in S : y <= z IN <<x>> \o SetToSeq(S \ {x})

InitPanes(m) ==
  /\ notebooks = m.notebooks
  /\ pages = m.pages
  /\ current = m.current
  /\ active_notebook = m.active_notebook
  /\ active_tab = m.active_tab
  /\ total_tabs = m.total_tabs
  /\ removing_notebook = m.removing_notebook
  /\ emitted = <<>>
  /\ called = [op |-> "init", notebook |-> NULL, tab |-> NULL, arg |-> 0, pre |-> Snapshot(m)]

\* The window adds a tab to a notebook (gedit_notebook_add_tab).
AddTab ==
  \E nb \in Range(notebooks), jump_to \in BOOLEAN :
    \E position \in -1..(Len(pages[nb]) - 1) :
      /\ FreeTabs(Multi) # {}
      /\ Assign(gedit_notebook_add_tab(Multi, nb, gedit_tab_new(Multi), position, jump_to), Call("add_tab", nb, gedit_tab_new(Multi), position))

\* A tab is removed from its notebook (gedit_notebook_remove_tab, or the tab
\* removing itself from its parent).
RemoveTab ==
  \E nb \in Range(notebooks) :
    \E tab \in Range(pages[nb]) :
      \E succ \in IF Len(pages[nb]) > 1 /\ gtk_notebook_page_num(Multi, nb, tab) = current[nb] THEN Range(pages[nb]) \ {tab} ELSE {NULL} :
        Assign(gedit_notebook_remove_tab(Multi, nb, tab, succ), Call("remove_tab", nb, tab, succ))

AddNewNotebook ==
  /\ \E n \in NotebookIds \ {MainNotebook} : n \notin Range(notebooks)
  /\ FreeTabs(Multi) # {}
  /\ Assign(gedit_multi_notebook_add_new_notebook(Multi), Call("add_new_notebook", gedit_notebook_new(Multi), gedit_tab_new(Multi), 0))

RemoveActiveNotebook ==
  /\ active_notebook \in Range(notebooks)
  /\ Assign(gedit_multi_notebook_remove_active_notebook(Multi), Call("remove_active_notebook", active_notebook, NULL, 0))

CloseAllTabs == Assign(gedit_multi_notebook_close_all_tabs(Multi), Call("close_all_tabs", NULL, NULL, 0))

CloseTabs ==
  \E S \in SUBSET TabsIn(Multi) :
    /\ Cardinality(S) >= 2
    /\ Assign(gedit_multi_notebook_close_tabs(Multi, SetToSeq(S)), Call("close_tabs", NULL, NULL, Cardinality(S)))

PreviousNotebook ==
  /\ active_notebook \in Range(notebooks)
  /\ Assign(gedit_multi_notebook_previous_notebook(Multi), Call("previous_notebook", NULL, NULL, 0))

NextNotebook ==
  /\ active_notebook \in Range(notebooks)
  /\ Assign(gedit_multi_notebook_next_notebook(Multi), Call("next_notebook", NULL, NULL, 0))

SetActiveTab ==
  \E tab \in TabsIn(Multi) :
    Assign(gedit_multi_notebook_set_active_tab(Multi, tab), Call("set_active_tab", NULL, tab, 0))

SetCurrentPage ==
  \E page_num \in 0..(SumPages(pages, notebooks) - 1) :
    Assign(gedit_multi_notebook_set_current_page(Multi, page_num), Call("set_current_page", NULL, NULL, page_num))

\* The user selects a page of a notebook with its tab label.
SwitchPage ==
  \E nb \in Range(notebooks) :
    \E page_num \in 0..(Len(pages[nb]) - 1) :
      Assign(gtk_notebook_set_current_page(Multi, nb, page_num), Call("switch_page", nb, NULL, page_num))

\* The keyboard focus moves into a page of a notebook.
FocusNotebook ==
  \E nb \in Range(notebooks) :
    /\ Len(pages[nb]) > 0
    /\ Assign(signal_set_focus_child(Multi, nb), Call("set_focus", nb, NULL, 0))

NextMulti ==
  \/ AddTab
  \/ RemoveTab
  \/ AddNewNotebook
  \/ RemoveActiveNotebook
  \/ CloseAllTabs
  \/ CloseTabs
  \/ PreviousNotebook
  \/ NextNotebook
  \/ SetActiveTab
  \/ SetCurrentPage
  \/ SwitchPage
  \/ FocusNotebook

\* ========================================================================
\* GeditTab (gedit/gedit-tab.c)
\* ========================================================================
MaxLoaders == 2
MaxTokens == 3
MaxInterval == 1

LoaderIds == 1..MaxLoaders
TokenIds == 1..MaxTokens

\* GeditTabState
GEDIT_TAB_STATE_NORMAL == "Normal"
GEDIT_TAB_STATE_LOADING == "Loading"
GEDIT_TAB_STATE_REVERTING == "Reverting"
GEDIT_TAB_STATE_SAVING == "Saving"
GEDIT_TAB_STATE_PRINTING == "Printing"
GEDIT_TAB_STATE_PRINT_PREVIEWING == "PrintPreviewing"
GEDIT_TAB_STATE_SHOWING_PRINT_PREVIEW == "ShowingPrintPreview"
GEDIT_TAB_STATE_GENERIC_NOT_EDITABLE == "GenericNotEditable"
GEDIT_TAB_STATE_LOADING_ERROR == "LoadingError"
GEDIT_TAB_STATE_REVERTING_ERROR == "RevertingError"
GEDIT_TAB_STATE_SAVING_ERROR == "SavingError"
GEDIT_TAB_STATE_GENERIC_ERROR == "GenericError"
GEDIT_TAB_STATE_CLOSING == "Closing"
GEDIT_TAB_STATE_EXTERNALLY_MODIFIED_NOTIFICATION == "ExternallyModifiedNotification"

TabStates == {GEDIT_TAB_STATE_NORMAL, GEDIT_TAB_STATE_LOADING, GEDIT_TAB_STATE_REVERTING, GEDIT_TAB_STATE_SAVING, GEDIT_TAB_STATE_PRINTING, GEDIT_TAB_STATE_PRINT_PREVIEWING, GEDIT_TAB_STATE_SHOWING_PRINT_PREVIEW, GEDIT_TAB_STATE_GENERIC_NOT_EDITABLE, GEDIT_TAB_STATE_LOADING_ERROR, GEDIT_TAB_STATE_REVERTING_ERROR, GEDIT_TAB_STATE_SAVING_ERROR, GEDIT_TAB_STATE_GENERIC_ERROR, GEDIT_TAB_STATE_CLOSING, GEDIT_TAB_STATE_EXTERNALLY_MODIFIED_NOTIFICATION}

\* GtkSourceFileSaverFlags, as the set of the bits that are on
GTK_SOURCE_FILE_SAVER_FLAGS_NONE == {}
GTK_SOURCE_FILE_SAVER_FLAGS_IGNORE_INVALID_CHARS == "IGNORE_INVALID_CHARS"
GTK_SOURCE_FILE_SAVER_FLAGS_IGNORE_MODIFICATION_TIME == "IGNORE_MODIFICATION_TIME"
GTK_SOURCE_FILE_SAVER_FLAGS_CREATE_BACKUP == "CREATE_BACKUP"

\* Return values of a GSourceFunc
G_SOURCE_REMOVE == "remove"
G_SOURCE_CONTINUE == "continue"

\* The info bars a tab shows, by the constructor that makes them; NoInfoBar
\* stands for priv->info_bar == NULL.
NoInfoBar == "none"
LoadingBar == "progress_loading"
SavingBar == "progress_saving"
PrintingBar == "progress_printing"
IoLoadingErrorBar == "io_loading_error"
UnrecoverableRevertingErrorBar == "unrecoverable_reverting_error"
FileAlreadyOpenBar == "file_already_open_warning"
ExternallyModifiedBar == "externally_modified"
ExternallyModifiedSavingErrorBar == "externally_modified_saving_error"
NoBackupSavingErrorBar == "no_backup_saving_error"
InvalidCharacterBar == "invalid_character"
UnrecoverableSavingErrorBar == "unrecoverable_saving_error"
ConversionErrorWhileSavingBar == "conversion_error_while_saving"
NetworkUnavailableBar == "network_unavailable"
ForeignBar == "foreign"

\* Locations of a document: none (untitled), a local file, a remote file.
NoLocation == "none"
LocalFile == "file"
RemoteFile == "remote"

FileLocations == {LocalFile}

\* The private fields of the tab and what it reads from its document, its
\* view and the main loop, as a record.  "log" collects what the tab asks
\* of its collaborators during one call.
Tab == [gedit_tab EXCEPT !.log = <<>>]

Logged(t, ev, arg) == [t EXCEPT !.log = Append(@, [ev |-> ev, arg |-> arg])]

\* ------------------------------------------------------------------------
\* Auto-save timeout
\* ------------------------------------------------------------------------
install_auto_save_timeout(t) ==
  IF t.auto_save_timeout = 0
    THEN IF t.auto_save_interval > 0
           THEN [t EXCEPT !.auto_save_timeout = 1, !.source = "regular"]
           ELSE t
    ELSE t

remove_auto_save_timeout(t) ==
  IF t.auto_save_timeout > 0
    THEN [t EXCEPT !.auto_save_timeout = 0, !.source = "none"]
    ELSE t

gedit_document_is_untitled(t) == t.location = NoLocation

gedit_document_get_readonly(t) == t.readonly

gedit_document_is_local(t) == t.location = LocalFile

\* Variant: the timeout is kept whatever the state.
update_auto_save_timeout_any_state(t) ==
  IF t.auto_save /\ ~gedit_document_is_untitled(t) /\ ~gedit_document_get_readonly(t)
    THEN install_auto_save_timeout(t)
    ELSE remove_auto_save_timeout(t)

update_auto_save_timeout(t) ==
  IF t.state = GEDIT_TAB_STATE_NORMAL /\ t.auto_save /\ ~gedit_document_is_untitled(t) /\ ~gedit_document_get_readonly(t)
    THEN install_auto_save_timeout(t)
    ELSE remove_auto_save_timeout(t)

\* ------------------------------------------------------------------------
\* State and info bar
\* ------------------------------------------------------------------------
clear_loading(t) == [t EXCEPT !.loader = NULL, !.cancellable = NULL]

\* Variant: outside Loading and Closing the view is editable whenever the
\* tab's editable flag is set.
set_view_properties_according_to_state_by_flag(t, state) ==
  [t EXCEPT !.view_editable = (state # GEDIT_TAB_STATE_LOADING /\ state # GEDIT_TAB_STATE_CLOSING /\ t.editable),
            !.cursor_visible = (state # GEDIT_TAB_STATE_LOADING /\ state # GEDIT_TAB_STATE_CLOSING)]

set_view_properties_according_to_state(t, state) ==
  [t EXCEPT !.view_editable = (state = GEDIT_TAB_STATE_NORMAL /\ t.editable),
            !.cursor_visible = (state # GEDIT_TAB_STATE_LOADING /\ state # GEDIT_TAB_STATE_CLOSING)]

gedit_tab_set_state(t, state) ==
  IF t.state = state
    THEN t
    ELSE LET t1 == [t EXCEPT !.state = state]
             t2 == set_view_properties_according_to_state(t1, state)
             t3 == update_auto_save_timeout(t2)
         IN  Logged(t3, "notify::state", state)

set_info_bar(t, info_bar) == IF t.info_bar = info_bar THEN t ELSE [t EXCEPT !.info_bar = info_bar]

\* remove_tab: the tab is taken out of its notebook, which destroys it.
remove_tab(t) == Logged([t EXCEPT !.in_notebook = FALSE], "remove_tab", NULL)

\* ------------------------------------------------------------------------
\* Loading
\* ------------------------------------------------------------------------
UsedTokens(t) == {t.cancellable} \cup {op.token : op \in t.loads} \cup t.cancelled

FreeTokens(t) == TokenIds \ UsedTokens(t)

g_cancellable_new(t) == CHOOSE c \in FreeTokens(t) : \A d \in FreeTokens(t) : c <= d

UsedLoaders(t) == {t.loader} \cup {op.loader : op \in t.loads}

FreeLoaders(t) == LoaderIds \ UsedLoaders(t)

gtk_source_file_loader_new(t) == CHOOSE l \in FreeLoaders(t) : \A k \in FreeLoaders(t) : l <= k

\* gtk_source_file_loader_load_async: a loader runs one operation at a
\* time; a second request on a loader that is still loading is rejected.
gtk_source_file_loader_load_async(t, loader, cancellable) ==
  IF \E op \in t.loads : op.loader = loader
    THEN Logged(t, "load_async_rejected", loader)
    ELSE Logged([t EXCEPT !.loads = @ \cup {[loader |-> loader, token |-> cancellable]}], "load_async", cancellable)

load(t, encoding) ==
  IF t.loader = NULL
    THEN t
    ELSE LET t1 == t
             t2 == [t1 EXCEPT !.cancellable = g_cancellable_new(t1)]
             t3 == Logged(t2, "load", NULL)
         IN  gtk_source_file_loader_load_async(t3, t3.loader, t3.cancellable)

\* Variant: the state is not required to be Normal.
gedit_tab_load_any_state(t, location, encoding, create) ==
  LET t1 == gedit_tab_set_state(t, GEDIT_TAB_STATE_LOADING)
      t2 == [t1 EXCEPT !.location = location]
      t3 == [t2 EXCEPT !.loader = gtk_source_file_loader_new(t2), !.create = create]
  IN  load(t3, encoding)

gedit_tab_load(t, location, encoding, create) ==
  IF t.state # GEDIT_TAB_STATE_NORMAL
    THEN t
    ELSE LET t1 == gedit_tab_set_state(t, GEDIT_TAB_STATE_LOADING)
             t2 == [t1 EXCEPT !.location = location]
             t3 == [t2 EXCEPT !.loader = gtk_source_file_loader_new(t2), !.create = create]
         IN  load(t3, encoding)

gedit_tab_load_stream(t, encoding) ==
  IF t.state # GEDIT_TAB_STATE_NORMAL
    THEN t
    ELSE LET t1 == gedit_tab_set_state(t, GEDIT_TAB_STATE_LOADING)
             t2 == [t1 EXCEPT !.location = NoLocation]
             t3 == [t2 EXCEPT !.loader = gtk_source_file_loader_new(t2), !.create = FALSE]
         IN  load(t3, encoding)

\* Variant: the state is not required to be Normal or
\* ExternallyModifiedNotification.
gedit_tab_revert_any_state(t) ==
  LET t1 == IF t.state = GEDIT_TAB_STATE_EXTERNALLY_MODIFIED_NOTIFICATION THEN set_info_bar(t, NoInfoBar) ELSE t
  IN  IF t1.location = NoLocation
        THEN t1
        ELSE LET t2 == gedit_tab_set_state(t1, GEDIT_TAB_STATE_REVERTING)
                 t3 == [t2 EXCEPT !.loader = gtk_source_file_loader_new(t2)]
             IN  load(t3, FALSE)

gedit_tab_revert(t) ==
  IF t.state # GEDIT_TAB_STATE_NORMAL /\ t.state # GEDIT_TAB_STATE_EXTERNALLY_MODIFIED_NOTIFICATION
    THEN t
    ELSE LET t1 == IF t.state = GEDIT_TAB_STATE_EXTERNALLY_MODIFIED_NOTIFICATION THEN set_info_bar(t, NoInfoBar) ELSE t
         IN  IF t1.location = NoLocation
               THEN t1
               ELSE LET t2 == gedit_tab_set_state(t1, GEDIT_TAB_STATE_REVERTING)
                        t3 == [t2 EXCEPT !.loader = gtk_source_file_loader_new(t2)]
                    IN  load(t3, FALSE)

\* The completion of a load, as load_cb sees it.
LoadResults == {"ok", "fallback", "cancelled", "not_found", "error"}

\* load_cb: result is what gtk_source_file_loader_load_finish reports,
\* readonly what the loader has found about the file, already_open whether
\* another document of the application has the same location.
\* Variant: a file named on creation that does not exist is an error like
\* any other.
load_cb_not_found_is_fatal(t, op, result, readonly, already_open) ==
  LET t0 == [t EXCEPT !.loads = @ \ {op}, !.cancelled = @ \ ({op.token} \ {t.cancellable})]
  IN  IF t0.state # GEDIT_TAB_STATE_LOADING /\ t0.state # GEDIT_TAB_STATE_REVERTING
        THEN t0
        ELSE LET t1 == set_info_bar(t0, NoInfoBar)
                 success == result \in {"ok", "fallback"}
                 create_named_new_doc == FALSE
                 error == IF create_named_new_doc THEN "ok" ELSE result
             IN  IF error \notin {"ok", "fallback"}
                   THEN LET t2 == gedit_tab_set_state(t1, IF t1.state = GEDIT_TAB_STATE_LOADING THEN GEDIT_TAB_STATE_LOADING_ERROR ELSE GEDIT_TAB_STATE_REVERTING_ERROR)
                        IN  IF error = "cancelled"
                              THEN remove_tab(t2)
                              ELSE LET t3 == IF t2.location # NoLocation THEN Logged(t2, "recent_remove", NULL) ELSE t2
                                   IN  set_info_bar(t3, IF t3.state = GEDIT_TAB_STATE_LOADING_ERROR THEN IoLoadingErrorBar ELSE UnrecoverableRevertingErrorBar)
                   ELSE LET t2 == IF success THEN [t1 EXCEPT !.modified = FALSE, !.readonly = readonly] ELSE t1
                            t3 == IF ~create_named_new_doc THEN Logged(t2, "recent_add", NULL) ELSE t2
                            t4 == IF error = "fallback" THEN set_info_bar([t3 EXCEPT !.editable = FALSE], IoLoadingErrorBar) ELSE t3
                            t5 == IF ~gedit_document_get_readonly(t4) /\ already_open /\ t4.location # NoLocation
                                    THEN set_info_bar([t4 EXCEPT !.editable = FALSE], FileAlreadyOpenBar)
                                    ELSE t4
                            t6 == gedit_tab_set_state(t5, GEDIT_TAB_STATE_NORMAL)
                            t7 == IF t6.location = NoLocation THEN [t6 EXCEPT !.modified = TRUE] ELSE t6
                            t8 == [t7 EXCEPT !.ask_if_externally_modified = TRUE]
                            t9 == IF error = "ok" THEN clear_loading(t8) ELSE t8
                        IN  Logged(t9, "loaded", NULL)

\* Variant: the conversion fallback shows its info bar and leaves the
\* editable flag as it is.
load_cb_fallback_editable(t, op, result, readonly, already_open) ==
  LET t0 == [t EXCEPT !.loads = @ \ {op}, !.cancelled = @ \ ({op.token} \ {t.cancellable})]
  IN  IF t0.state # GEDIT_TAB_STATE_LOADING /\ t0.state # GEDIT_TAB_STATE_REVERTING
        THEN t0
        ELSE LET t1 == set_info_bar(t0, NoInfoBar)
                 success == result \in {"ok", "fallback"}
                 create_named_new_doc == t1.create /\ result = "not_found" /\ t1.location = LocalFile
                 error == IF create_named_new_doc THEN "ok" ELSE result
             IN  IF error \notin {"ok", "fallback"}
                   THEN LET t2 == gedit_tab_set_state(t1, IF t1.state = GEDIT_TAB_STATE_LOADING THEN GEDIT_TAB_STATE_LOADING_ERROR ELSE GEDIT_TAB_STATE_REVERTING_ERROR)
                        IN  IF error = "cancelled"
                              THEN remove_tab(t2)
                              ELSE LET t3 == IF t2.location # NoLocation THEN Logged(t2, "recent_remove", NULL) ELSE t2
                                   IN  set_info_bar(t3, IF t3.state = GEDIT_TAB_STATE_LOADING_ERROR THEN IoLoadingErrorBar ELSE UnrecoverableRevertingErrorBar)
                   ELSE LET t2 == IF success THEN [t1 EXCEPT !.modified = FALSE, !.readonly = readonly] ELSE t1
                            t3 == IF ~create_named_new_doc THEN Logged(t2, "recent_add", NULL) ELSE t2
                            t4 == IF error = "fallback" THEN set_info_bar(t3, IoLoadingErrorBar) ELSE t3
                            t5 == IF ~gedit_document_get_readonly(t4) /\ already_open /\ t4.location # NoLocation
                                    THEN set_info_bar([t4 EXCEPT !.editable = FALSE], FileAlreadyOpenBar)
                                    ELSE t4
                            t6 == gedit_tab_set_state(t5, GEDIT_TAB_STATE_NORMAL)
                            t7 == IF t6.location = NoLocation THEN [t6 EXCEPT !.modified = TRUE] ELSE t6
                            t8 == [t7 EXCEPT !.ask_if_externally_modified = TRUE]
                            t9 == IF error = "ok" THEN clear_loading(t8) ELSE t8
                        IN  Logged(t9, "loaded", NULL)

load_cb(t, op, result, readonly, already_open) ==
  LET t0 == [t EXCEPT !.loads = @ \ {op}, !.cancelled = @ \ ({op.token} \ {t.cancellable})]
  IN  IF t0.state # GEDIT_TAB_STATE_LOADING /\ t0.state # GEDIT_TAB_STATE_REVERTING
        THEN t0
        ELSE LET t1 == set_info_bar(t0, NoInfoBar)
                 success == result \in {"ok", "fallback"}
                 create_named_new_doc == t1.create /\ result = "not_found" /\ t1.location = LocalFile
                 error == IF create_named_new_doc THEN "ok" ELSE result
             IN  IF error \notin {"ok", "fallback"}
                   THEN LET t2 == gedit_tab_set_state(t1, IF t1.state = GEDIT_TAB_STATE_LOADING THEN GEDIT_TAB_STATE_LOADING_ERROR ELSE GEDIT_TAB_STATE_REVERTING_ERROR)
                        IN  IF error = "cancelled"
                              THEN remove_tab(t2)
                              ELSE LET t3 == IF t2.location # NoLocation THEN Logged(t2, "recent_remove", NULL) ELSE t2
                                   IN  set_info_bar(t3, IF t3.state = GEDIT_TAB_STATE_LOADING_ERROR THEN IoLoadingErrorBar ELSE UnrecoverableRevertingErrorBar)
                   ELSE LET t2 == IF success THEN [t1 EXCEPT !.modified = FALSE, !.readonly = readonly] ELSE t1
                            t3 == IF ~create_named_new_doc THEN Logged(t2, "recent_add", NULL) ELSE t2
                            t4 == IF error = "fallback" THEN set_info_bar([t3 EXCEPT !.editable = FALSE], IoLoadingErrorBar) ELSE t3
                            t5 == IF ~gedit_document_get_readonly(t4) /\ already_open /\ t4.location # NoLocation
                                    THEN set_info_bar([t4 EXCEPT !.editable = FALSE], FileAlreadyOpenBar)
                                    ELSE t4
                            t6 == gedit_tab_set_state(t5, GEDIT_TAB_STATE_NORMAL)
                            t7 == IF t6.location = NoLocation THEN [t6 EXCEPT !.modified = TRUE] ELSE t6
                            t8 == [t7 EXCEPT !.ask_if_externally_modified = TRUE]
                            t9 == IF error = "ok" THEN clear_loading(t8) ELSE t8
                        IN  Logged(t9, "loaded", NULL)

\* ------------------------------------------------------------------------
\* Responses of the info bars shown while loading and reverting
\* ------------------------------------------------------------------------
Responses == {"GTK_RESPONSE_OK", "GTK_RESPONSE_YES", "GTK_RESPONSE_CANCEL"}

\* Variant: the retry with another encoding makes the tab editable again.
io_loading_error_info_bar_response_retry_editable(t, response_id) ==
  IF t.loader = NULL
    THEN t
    ELSE CASE response_id = "GTK_RESPONSE_OK" ->
                LET t1 == set_info_bar([t EXCEPT !.editable = TRUE], NoInfoBar)
                    t2 == gedit_tab_set_state(t1, GEDIT_TAB_STATE_LOADING)
                IN  load(t2, TRUE)
           [] response_id = "GTK_RESPONSE_YES" ->
                LET t1 == [t EXCEPT !.editable = TRUE, !.view_editable = TRUE]
                    t2 == set_info_bar(t1, NoInfoBar)
                IN  clear_loading(t2)
           [] OTHER ->
                LET t1 == IF t.location # NoLocation THEN Logged(t, "recent_remove", NULL) ELSE t
                IN  remove_tab(t1)

io_loading_error_info_bar_response(t, response_id) ==
  IF t.loader = NULL
    THEN t
    ELSE CASE response_id = "GTK_RESPONSE_OK" ->
                LET t1 == set_info_bar(t, NoInfoBar)
                    t2 == gedit_tab_set_state(t1, GEDIT_TAB_STATE_LOADING)
                IN  load(t2, TRUE)
           [] response_id = "GTK_RESPONSE_YES" ->
                LET t1 == [t EXCEPT !.editable = TRUE, !.view_editable = TRUE]
                    t2 == set_info_bar(t1, NoInfoBar)
                IN  clear_loading(t2)
           [] OTHER ->
                LET t1 == IF t.location # NoLocation THEN Logged(t, "recent_remove", NULL) ELSE t
                IN  remove_tab(t1)

\* Variant: the YES answer sets the editable flag and leaves the view to
\* the next change of state.
file_already_open_warning_info_bar_response_flag_only(t, response_id) ==
  LET t1 == IF response_id = "GTK_RESPONSE_YES" THEN [t EXCEPT !.editable = TRUE] ELSE t
  IN  set_info_bar(t1, NoInfoBar)

file_already_open_warning_info_bar_response(t, response_id) ==
  LET t1 == IF response_id = "GTK_RESPONSE_YES" THEN [t EXCEPT !.editable = TRUE, !.view_editable = TRUE] ELSE t
  IN  set_info_bar(t1, NoInfoBar)

load_cancelled(t, response_id) ==
  IF t.info_bar \notin {LoadingBar, SavingBar, PrintingBar} \/ t.cancellable = NULL
    THEN t
    ELSE [t EXCEPT !.cancelled = @ \cup {t.cancellable}]

unrecoverable_reverting_error_info_bar_response(t, response_id) ==
  LET t1 == gedit_tab_set_state(t, GEDIT_TAB_STATE_NORMAL)
      t2 == set_info_bar(t1, NoInfoBar)
  IN  clear_loading(t2)

show_loading_info_bar(t) == IF t.info_bar # NoInfoBar THEN t ELSE set_info_bar(t, LoadingBar)

\* loader_progress_cb
loader_progress_cb(t, show) ==
  IF t.state # GEDIT_TAB_STATE_LOADING /\ t.state # GEDIT_TAB_STATE_REVERTING
    THEN t
    ELSE IF show THEN show_loading_info_bar(t) ELSE t

\* ------------------------------------------------------------------------
\* Printing
\* ------------------------------------------------------------------------
close_printing(t) ==
  LET t1 == [t EXCEPT !.print_preview = FALSE, !.print_job = FALSE]
      t2 == set_info_bar(t1, NoInfoBar)
  IN  gedit_tab_set_state(t2, GEDIT_TAB_STATE_NORMAL)

add_printing_info_bar(t) == set_info_bar(t, PrintingBar)

\* Variant: an open print preview is not closed first.
gedit_tab_print_normal_only(t, res) ==
  IF t.print_job \/ t.state # GEDIT_TAB_STATE_NORMAL
    THEN t
    ELSE LET t2 == [t EXCEPT !.print_job = TRUE]
             t3 == add_printing_info_bar(t2)
             t4 == gedit_tab_set_state(t3, GEDIT_TAB_STATE_PRINTING)
             t5 == Logged(t4, "print_job_print", res)
         IN  IF res = "GTK_PRINT_OPERATION_RESULT_ERROR" THEN close_printing(t5) ELSE t5

\* _gedit_tab_print: res is what gedit_print_job_print returns.
gedit_tab_print(t, res) ==
  LET t1 == IF t.state = GEDIT_TAB_STATE_SHOWING_PRINT_PREVIEW THEN close_printing(t) ELSE t
  IN  IF t1.print_job \/ t1.state # GEDIT_TAB_STATE_NORMAL
        THEN t1
        ELSE LET t2 == [t1 EXCEPT !.print_job = TRUE]
                 t3 == add_printing_info_bar(t2)
                 t4 == gedit_tab_set_state(t3, GEDIT_TAB_STATE_PRINTING)
                 t5 == Logged(t4, "print_job_print", res)
             IN  IF res = "GTK_PRINT_OPERATION_RESULT_ERROR" THEN close_printing(t5) ELSE t5

\* Variant: the preview is announced in PrintPreviewing before it is shown.
show_preview_cb_via_previewing(t) ==
  IF t.print_preview
    THEN t
    ELSE LET t1 == set_info_bar(t, NoInfoBar)
             t2 == gedit_tab_set_state(t1, GEDIT_TAB_STATE_PRINT_PREVIEWING)
             t3 == [t2 EXCEPT !.print_preview = TRUE]
         IN  gedit_tab_set_state(t3, GEDIT_TAB_STATE_SHOWING_PRINT_PREVIEW)

show_preview_cb(t) ==
  IF t.print_preview
    THEN t
    ELSE LET t1 == set_info_bar(t, NoInfoBar)
             t2 == [t1 EXCEPT !.print_preview = TRUE]
         IN  gedit_tab_set_state(t2, GEDIT_TAB_STATE_SHOWING_PRINT_PREVIEW)

done_printing_cb(t, result) ==
  IF t.state \notin {GEDIT_TAB_STATE_PRINT_PREVIEWING, GEDIT_TAB_STATE_SHOWING_PRINT_PREVIEW, GEDIT_TAB_STATE_PRINTING}
    THEN t
    ELSE LET t1 == IF result = "GEDIT_PRINT_JOB_RESULT_OK" THEN Logged(t, "store_print_settings", NULL) ELSE t
         IN  close_printing(t1)

\* ------------------------------------------------------------------------
\* Saving
\* ------------------------------------------------------------------------
\* gtk_source_file_saver_save_async: a saver runs one operation at a time.
gtk_source_file_saver_save_async(t) ==
  IF t.saving
    THEN Logged(t, "save_async_rejected", NULL)
    ELSE Logged([t EXCEPT !.saving = TRUE], "save_async", t.saver_flags)

save(t) ==
  IF ~t.task_saver
    THEN t
    ELSE LET t1 == gedit_tab_set_state(t, GEDIT_TAB_STATE_SAVING)
             t2 == Logged(t1, "save", NULL)
         IN  gtk_source_file_saver_save_async(t2)

\* _gedit_tab_save_finish, called by the callback of the task.
gedit_tab_save_finish(t) == [t EXCEPT !.task_saver = FALSE, !.saver_flags = {}, !.force_no_backup = FALSE, !.saver_target = NoLocation]

\* g_task_return_boolean: the callback of the task runs and finishes it.
g_task_return_boolean(t, result) == gedit_tab_save_finish(Logged(t, "task_return", result))

\* g_task_new and saver_data_new
g_task_new(t) == [t EXCEPT !.task_saver = TRUE, !.saver_flags = {}, !.force_no_backup = FALSE]

\* Variant: the backup is asked for on an auto-save too.
get_initial_save_flags_always(t, auto_save, create_backup) ==
  IF create_backup THEN t.save_flags \cup {GTK_SOURCE_FILE_SAVER_FLAGS_CREATE_BACKUP} ELSE t.save_flags

\* get_initial_save_flags: create_backup is the value of the setting
\* GEDIT_SETTINGS_CREATE_BACKUP_COPY when it is read.
get_initial_save_flags(t, auto_save, create_backup) ==
  IF create_backup /\ ~auto_save
    THEN t.save_flags \cup {GTK_SOURCE_FILE_SAVER_FLAGS_CREATE_BACKUP}
    ELSE t.save_flags

unrecoverable_saving_error_info_bar_response(t, response_id) ==
  LET t1 == gedit_tab_set_state(t, GEDIT_TAB_STATE_NORMAL)
      t2 == set_info_bar(t1, NoInfoBar)
  IN  IF ~t2.task_saver THEN t2 ELSE g_task_return_boolean(t2, FALSE)

\* Variant: the backup bit follows the setting alone.
response_set_save_flags_by_setting(t, save_flags, create_backup) ==
  [t EXCEPT !.saver_flags = IF create_backup
                              THEN save_flags \cup {GTK_SOURCE_FILE_SAVER_FLAGS_CREATE_BACKUP}
                              ELSE save_flags \ {GTK_SOURCE_FILE_SAVER_FLAGS_CREATE_BACKUP}]

response_set_save_flags(t, save_flags, create_backup) ==
  [t EXCEPT !.saver_flags = IF create_backup /\ ~t.force_no_backup
                              THEN save_flags \cup {GTK_SOURCE_FILE_SAVER_FLAGS_CREATE_BACKUP}
                              ELSE save_flags \ {GTK_SOURCE_FILE_SAVER_FLAGS_CREATE_BACKUP}]

invalid_character_info_bar_response(t, response_id, create_backup) ==
  IF response_id = "GTK_RESPONSE_YES"
    THEN LET t1 == set_info_bar(t, NoInfoBar)
         IN  IF ~t1.task_saver
               THEN t1
               ELSE LET t2 == [t1 EXCEPT !.save_flags = @ \cup {GTK_SOURCE_FILE_SAVER_FLAGS_IGNORE_INVALID_CHARS}]
                        t3 == response_set_save_flags(t2, t2.saver_flags \cup {GTK_SOURCE_FILE_SAVER_FLAGS_IGNORE_INVALID_CHARS}, create_backup)
                    IN  save(t3)
    ELSE unrecoverable_saving_error_info_bar_response(t, response_id)

no_backup_error_info_bar_response(t, response_id, create_backup) ==
  IF response_id = "GTK_RESPONSE_YES"
    THEN LET t1 == set_info_bar(t, NoInfoBar)
         IN  IF ~t1.task_saver
               THEN t1
               ELSE LET t2 == [t1 EXCEPT !.force_no_backup = TRUE]
                        t3 == response_set_save_flags(t2, t2.saver_flags, create_backup)
                    IN  save(t3)
    ELSE unrecoverable_saving_error_info_bar_response(t, response_id)

\* Variant: the override of the modification time is kept in the
\* long-lived flags, as the override of invalid characters is.
externally_modified_error_info_bar_response_persisted(t, response_id, create_backup) ==
  IF response_id = "GTK_RESPONSE_YES"
    THEN LET t1 == set_info_bar(t, NoInfoBar)
         IN  IF ~t1.task_saver
               THEN t1
               ELSE LET t2 == [t1 EXCEPT !.save_flags = @ \cup {GTK_SOURCE_FILE_SAVER_FLAGS_IGNORE_MODIFICATION_TIME}]
                        t3 == response_set_save_flags(t2, t2.saver_flags \cup {GTK_SOURCE_FILE_SAVER_FLAGS_IGNORE_MODIFICATION_TIME}, create_backup)
                    IN  save(t3)
    ELSE unrecoverable_saving_error_info_bar_response(t, response_id)

externally_modified_error_info_bar_response(t, response_id, create_backup) ==
  IF response_id = "GTK_RESPONSE_YES"
    THEN LET t1 == set_info_bar(t, NoInfoBar)
         IN  IF ~t1.task_saver
               THEN t1
               ELSE LET t3 == response_set_save_flags(t1, t1.saver_flags \cup {GTK_SOURCE_FILE_SAVER_FLAGS_IGNORE_MODIFICATION_TIME}, create_backup)
                    IN  save(t3)
    ELSE unrecoverable_saving_error_info_bar_response(t, response_id)

recoverable_saving_error_info_bar_response(t, response_id) ==
  IF response_id = "GTK_RESPONSE_OK"
    THEN LET t1 == set_info_bar(t, NoInfoBar)
         IN  IF ~t1.task_saver THEN t1 ELSE save(t1)
    ELSE unrecoverable_saving_error_info_bar_response(t, response_id)

externally_modified_notification_info_bar_response(t, response_id) ==
  LET t1 == set_info_bar(t, NoInfoBar)
  IN  IF response_id = "GTK_RESPONSE_OK"
        THEN gedit_tab_revert(t1)
        ELSE gedit_tab_set_state([t1 EXCEPT !.ask_if_externally_modified = FALSE], GEDIT_TAB_STATE_NORMAL)

show_saving_info_bar(t) ==
  IF ~t.task_saver
    THEN t
    ELSE IF t.info_bar # NoInfoBar THEN t ELSE set_info_bar(t, SavingBar)

saver_progress_cb(t, show) ==
  IF t.state # GEDIT_TAB_STATE_SAVING
    THEN t
    ELSE IF show THEN show_saving_info_bar(t) ELSE t

\* The completion of a save, as save_cb sees it: "ok" or the error.
SaveResults == {"ok", "SAVER_EXTERNALLY_MODIFIED", "IO_CANT_CREATE_BACKUP", "SAVER_INVALID_CHARS", "SAVER_OTHER", "IO_OTHER", "IO_INVALID_DATA", "IO_PARTIAL_INPUT", "CONVERT"}

SavingErrorBar(error) ==
  IF error = "SAVER_EXTERNALLY_MODIFIED" THEN ExternallyModifiedSavingErrorBar
  ELSE IF error = "IO_CANT_CREATE_BACKUP" THEN NoBackupSavingErrorBar
  ELSE IF error = "SAVER_INVALID_CHARS" THEN InvalidCharacterBar
  ELSE IF error \in {"SAVER_OTHER", "IO_OTHER"} THEN UnrecoverableSavingErrorBar
  ELSE ConversionErrorWhileSavingBar

save_cb(t, error) ==
  LET t0 == [t EXCEPT !.saving = FALSE]
  IN  IF t0.state # GEDIT_TAB_STATE_SAVING \/ ~t0.task_saver
        THEN t0
        ELSE LET t1 == set_info_bar(t0, NoInfoBar)
             IN  IF error # "ok"
                   THEN LET t2 == gedit_tab_set_state(t1, GEDIT_TAB_STATE_SAVING_ERROR)
                            t3 == IF SavingErrorBar(error) = UnrecoverableSavingErrorBar THEN Logged(t2, "recent_remove", NULL) ELSE t2
                        IN  set_info_bar(t3, SavingErrorBar(error))
                   ELSE LET t2 == [t1 EXCEPT !.modified = FALSE, !.location = t1.saver_target, !.readonly = FALSE]
                            t3 == Logged(t2, "recent_add", NULL)
                            t4 == gedit_tab_set_state(t3, GEDIT_TAB_STATE_NORMAL)
                            t5 == [t4 EXCEPT !.ask_if_externally_modified = TRUE]
                            t6 == Logged(t5, "saved", NULL)
                        IN  g_task_return_boolean(t6, TRUE)

SaveStates == {GEDIT_TAB_STATE_NORMAL, GEDIT_TAB_STATE_EXTERNALLY_MODIFIED_NOTIFICATION, GEDIT_TAB_STATE_SHOWING_PRINT_PREVIEW}

\* Variant: a save is taken up while the task of another exists.
gedit_tab_save_async_any_task(t, create_backup) ==
  IF t.state \notin SaveStates
    THEN t
    ELSE LET t1 == IF t.state = GEDIT_TAB_STATE_SHOWING_PRINT_PREVIEW THEN close_printing(t) ELSE t
         IN  IF gedit_document_is_untitled(t1)
               THEN t1
               ELSE LET t2 == g_task_new(t1)
                        save_flags == get_initial_save_flags(t2, FALSE, create_backup)
                        notified == (t2.state = GEDIT_TAB_STATE_EXTERNALLY_MODIFIED_NOTIFICATION)
                        t3 == IF notified THEN set_info_bar(t2, NoInfoBar) ELSE t2
                        flags == IF notified THEN save_flags \cup {GTK_SOURCE_FILE_SAVER_FLAGS_IGNORE_MODIFICATION_TIME} ELSE save_flags
                        t4 == [t3 EXCEPT !.saver_target = t3.location, !.saver_flags = flags]
                    IN  save(t4)

gedit_tab_save_async(t, create_backup) ==
  IF t.state \notin SaveStates
    THEN t
    ELSE IF t.task_saver
      THEN Logged(t, "g_warning", NULL)
      ELSE LET t1 == IF t.state = GEDIT_TAB_STATE_SHOWING_PRINT_PREVIEW THEN close_printing(t) ELSE t
           IN  IF gedit_document_is_untitled(t1)
                 THEN t1
                 ELSE LET t2 == g_task_new(t1)
                          save_flags == get_initial_save_flags(t2, FALSE, create_backup)
                          notified == (t2.state = GEDIT_TAB_STATE_EXTERNALLY_MODIFIED_NOTIFICATION)
                          t3 == IF notified THEN set_info_bar(t2, NoInfoBar) ELSE t2
                          flags == IF notified THEN save_flags \cup {GTK_SOURCE_FILE_SAVER_FLAGS_IGNORE_MODIFICATION_TIME} ELSE save_flags
                          t4 == [t3 EXCEPT !.saver_target = t3.location, !.saver_flags = flags]
                      IN  save(t4)

gedit_tab_save_as_async(t, location, create_backup) ==
  IF t.state \notin SaveStates
    THEN t
    ELSE IF t.task_saver
      THEN Logged(t, "g_warning", NULL)
      ELSE LET t1 == IF t.state = GEDIT_TAB_STATE_SHOWING_PRINT_PREVIEW THEN close_printing(t) ELSE t
               t2 == g_task_new(t1)
               t2b == [t2 EXCEPT !.save_flags = GTK_SOURCE_FILE_SAVER_FLAGS_NONE]
               save_flags == get_initial_save_flags(t2b, FALSE, create_backup)
               notified == (t2b.state = GEDIT_TAB_STATE_EXTERNALLY_MODIFIED_NOTIFICATION)
               t3 == IF notified THEN set_info_bar(t2b, NoInfoBar) ELSE t2b
               flags == IF notified THEN save_flags \cup {GTK_SOURCE_FILE_SAVER_FLAGS_IGNORE_MODIFICATION_TIME} ELSE save_flags
               t4 == [t3 EXCEPT !.saver_target = location, !.saver_flags = flags]
           IN  save(t4)

Returned(t, value) == Logged(t, "return", value)

\* gedit_tab_auto_save, the callback of the auto-save timeout.
gedit_tab_auto_save(t, create_backup) ==
  IF gedit_document_is_untitled(t) \/ gedit_document_get_readonly(t)
    THEN Returned(t, G_SOURCE_REMOVE)
    ELSE IF ~t.modified
      THEN Returned(t, G_SOURCE_CONTINUE)
      ELSE IF t.state # GEDIT_TAB_STATE_NORMAL
        THEN Returned(Logged([t EXCEPT !.auto_save_timeout = 1, !.source = "retry"], "timeout_add", NULL), G_SOURCE_REMOVE)
        ELSE LET t1 == [t EXCEPT !.auto_save_timeout = 0]
             IN  IF t1.task_saver
                   THEN Returned(Logged(t1, "g_warning", NULL), G_SOURCE_REMOVE)
                   ELSE LET t2 == g_task_new(t1)
                            t3 == [t2 EXCEPT !.saver_target = t2.location, !.saver_flags = get_initial_save_flags(t2, TRUE, create_backup)]
                        IN  Returned(save(t3), G_SOURCE_REMOVE)

HasLogged(t, ev) == \E i \in 1..Len(t.log) : t.log[i].ev = ev

LoggedArgs(t, ev) == {t.log[i].arg : i \in {j \in 1..Len(t.log) : t.log[j].ev = ev}}

\* The main loop runs the callback of the timeout and destroys the source
\* when the callback returns G_SOURCE_REMOVE.
g_timeout_dispatch(t, create_backup) ==
  LET r == gedit_tab_auto_save(t, create_backup)
  IN  IF G_SOURCE_CONTINUE \in LoggedArgs(r, "return") \/ HasLogged(r, "timeout_add")
        THEN r
        ELSE [r EXCEPT !.source = "none"]

\* ------------------------------------------------------------------------
\* Other entry points of the tab
\* ------------------------------------------------------------------------
gedit_tab_mark_for_closing(t) == IF t.state # GEDIT_TAB_STATE_NORMAL THEN t ELSE gedit_tab_set_state(t, GEDIT_TAB_STATE_CLOSING)

display_externally_modified_notification(t) == IF t.location = NoLocation THEN t ELSE set_info_bar(t, ExternallyModifiedBar)

\* view_focused_in: _gedit_document_check_externally_modified looks at the
\* file on disk, which also refreshes the read-only flag of the file.
\* Variant: the answer given to an earlier notification is not consulted.
view_focused_in_always_asks(t, externally_modified, readonly) ==
  IF t.state # GEDIT_TAB_STATE_NORMAL \/ ~gedit_document_is_local(t)
    THEN t
    ELSE LET t1 == [t EXCEPT !.readonly = readonly]
         IN  IF externally_modified
               THEN display_externally_modified_notification(gedit_tab_set_state(t1, GEDIT_TAB_STATE_EXTERNALLY_MODIFIED_NOTIFICATION))
               ELSE t1

view_focused_in(t, externally_modified, readonly) ==
  IF t.state # GEDIT_TAB_STATE_NORMAL \/ ~t.ask_if_externally_modified \/ ~gedit_document_is_local(t)
    THEN t
    ELSE LET t1 == [t EXCEPT !.readonly = readonly]
         IN  IF externally_modified
               THEN display_externally_modified_notification(gedit_tab_set_state(t1, GEDIT_TAB_STATE_EXTERNALLY_MODIFIED_NOTIFICATION))
               ELSE t1

gedit_tab_set_network_available(t, enable) ==
  IF gedit_document_is_local(t)
    THEN t
    ELSE IF enable THEN set_info_bar(t, NoInfoBar) ELSE set_info_bar(t, NetworkUnavailableBar)

gedit_tab_set_auto_save_enabled(t, enable, lockdown) ==
  LET en == enable /\ ~lockdown
  IN  IF t.auto_save # en THEN update_auto_save_timeout([t EXCEPT !.auto_save = en]) ELSE t

gedit_tab_set_auto_save_interval(t, interval) ==
  IF interval <= 0
    THEN t
    ELSE IF t.auto_save_interval # interval
      THEN update_auto_save_timeout(remove_auto_save_timeout([t EXCEPT !.auto_save_interval = interval]))
      ELSE t

gedit_tab_set_info_bar(t, info_bar) == set_info_bar(t, info_bar)

\* gedit_tab_init: auto_save and auto_save_interval are the settings read,
\* lockdown whether saving to disk is locked down.
gedit_tab_init(auto_save, lockdown, auto_save_interval) ==
  [state |-> GEDIT_TAB_STATE_NORMAL, info_bar |-> NoInfoBar, print_job |-> FALSE, print_preview |-> FALSE,
   task_saver |-> FALSE, saver_flags |-> {}, force_no_backup |-> FALSE, saver_target |-> NoLocation, save_flags |-> GTK_SOURCE_FILE_SAVER_FLAGS_NONE,
   loader |-> NULL, cancellable |-> NULL, auto_save |-> (auto_save /\ ~lockdown), auto_save_interval |-> auto_save_interval, auto_save_timeout |-> 0,
   editable |-> TRUE, ask_if_externally_modified |-> TRUE,
   view_editable |-> TRUE, cursor_visible |-> TRUE,
   location |-> NoLocation, modified |-> FALSE, readonly |-> FALSE, create |-> FALSE,
   source |-> "none", loads |-> {}, cancelled |-> {}, saving |-> FALSE, in_notebook |-> TRUE, log |-> <<>>]

\* ------------------------------------------------------------------------
\* Actions of the tab: one call from outside each (window command, info bar
\* response, completion of an asynchronous operation, timeout, event of the
\* view).  What the tab asks of its collaborators during a call is in the
\* "log" field of the record the handler returns.
\* ------------------------------------------------------------------------
\* Objects are known by their references only: loaders and cancellables
\* are renumbered in the order the tab reaches them (its own field first,
\* then the operations in flight), cancellables nobody refers to are gone,
\* and a tab taken out of its notebook is destroyed.
LoaderOrder(t) == (IF t.loader # NULL THEN <<t.loader>> ELSE <<>>) \o SetToSeq({op.loader : op \in t.loads} \ {t.loader})

TokenOrder(t) == (IF t.cancellable # NULL THEN <<t.cancellable>> ELSE <<>>) \o SetToSeq({op.token : op \in t.loads} \ {t.cancellable})

Destroyed == [gedit_tab_init(FALSE, FALSE, 1) EXCEPT !.state = GEDIT_TAB_STATE_CLOSING, !.view_editable = FALSE, !.cursor_visible = FALSE, !.in_notebook = FALSE]

Collected(t) ==
  IF ~t.in_notebook
    THEN Destroyed
    ELSE [t EXCEPT !.loader = IndexOf(LoaderOrder(t), @),
                   !.cancellable = IndexOf(TokenOrder(t), @),
                   !.loads = {[loader |-> IndexOf(LoaderOrder(t), op.loader), token |-> IndexOf(TokenOrder(t), op.token)] : op \in t.loads},
                   !.cancelled = {IndexOf(TokenOrder(t), c) : c \in (@ \cap {op.token : op \in t.loads})},
                   !.log = <<>>]

AssignTab(t) ==
  /\ gedit_tab' = Collected(t)
  /\ UNCHANGED <<mvars, evars, cvars>>

CanLoad == FreeTokens(Tab) # {} /\ FreeLoaders(Tab) # {}

\* ------------------------------------------------------------------------
\* Candidate encodings of a load (get_candidate_encodings)
\* ------------------------------------------------------------------------
MaxSettings == 2

\* Charsets as the settings and the metadata spell them; the last one is
\* not the name of any encoding.
Charsets == {"UTF-8", "ISO-8859-1", "x-unknown"}

\* The GtkSourceEncoding objects, which are not the names of their charsets.
UTF_8 == "GtkSourceEncoding UTF-8"
ISO_8859_1 == "GtkSourceEncoding ISO-8859-1"
ISO_8859_15 == "GtkSourceEncoding ISO-8859-15"

Encodings == {UTF_8, ISO_8859_1, ISO_8859_15}

\* No charset in the metadata, no encoding.
NoCharset == "no charset"
NoEncoding == "no encoding"

gtk_source_encoding_get_from_charset(charset) ==
  CASE charset = "UTF-8" -> UTF_8
    [] charset = "ISO-8859-1" -> ISO_8859_1
    [] charset = "ISO-8859-15" -> ISO_8859_15
    [] OTHER -> NoEncoding

gtk_source_encoding_get_default_candidates == <<UTF_8, ISO_8859_15>>

g_slist_prepend(list, data) == <<data>> \o list

\* _gedit_utils_encoding_strv_to_list: the encodings of the charsets, in
\* order, without those that name no encoding and without repetitions.
RECURSIVE gedit_utils_encoding_strv_to_list_from(_, _)
gedit_utils_encoding_strv_to_list_from(enc_str, res) ==
  IF enc_str = <<>>
    THEN res
    ELSE LET enc == gtk_source_encoding_get_from_charset(Head(enc_str))
         IN  gedit_utils_encoding_strv_to_list_from(Tail(enc_str),
               IF enc # NoEncoding /\ enc \notin Range(res) THEN Append(res, enc) ELSE res)

gedit_utils_encoding_strv_to_list(enc_str) == gedit_utils_encoding_strv_to_list_from(enc_str, <<>>)

\* Variant: the encoding of the metadata is put before that of the file.
get_candidate_encodings_metadata_first(settings_strv, metadata_charset, file_encoding) ==
  LET c0 == IF settings_strv # <<>> THEN gedit_utils_encoding_strv_to_list(settings_strv) ELSE gtk_source_encoding_get_default_candidates
      c1 == IF file_encoding # NoEncoding THEN g_slist_prepend(c0, file_encoding) ELSE c0
      metadata_enc == IF metadata_charset # NoCharset THEN gtk_source_encoding_get_from_charset(metadata_charset) ELSE NoEncoding
  IN  IF metadata_enc # NoEncoding THEN g_slist_prepend(c1, metadata_enc) ELSE c1

\* get_candidate_encodings: settings_strv is the setting
\* GEDIT_SETTINGS_CANDIDATE_ENCODINGS, metadata_charset the metadata
\* GEDIT_METADATA_ATTRIBUTE_ENCODING of the document, file_encoding the
\* encoding of the GtkSourceFile.
get_candidate_encodings(settings_strv, metadata_charset, file_encoding) ==
  LET c0 == IF settings_strv # <<>> THEN gedit_utils_encoding_strv_to_list(settings_strv) ELSE gtk_source_encoding_get_default_candidates
      metadata_enc == IF metadata_charset # NoCharset THEN gtk_source_encoding_get_from_charset(metadata_charset) ELSE NoEncoding
      c1 == IF metadata_enc # NoEncoding THEN g_slist_prepend(c0, metadata_enc) ELSE c0
  IN  IF file_encoding # NoEncoding THEN g_slist_prepend(c1, file_encoding) ELSE c1

SettingsLists == UNION {[1..n -> Charsets] : n \in 0..MaxSettings}

\* No load has asked for the candidates.
NoEncodingRequest == [settings_strv |-> <<>>, metadata_charset |-> NoCharset, file_encoding |-> NoEncoding, asked |-> FALSE, candidates |-> <<>>]

\* ------------------------------------------------------------------------
\* Whether the tab can be closed
\* ------------------------------------------------------------------------
\* _gedit_document_needs_saving: the buffer is modified, or the file is a
\* local one found changed or deleted on disk and the document was not
\* created for a file that does not exist yet.
gedit_document_needs_saving(t, externally_changed) ==
  \/ t.modified
  \/ (gedit_document_is_local(t) /\ externally_changed /\ ~t.create)

\* Variant: a tab that is saving can always be closed.
gedit_tab_get_can_close_saving(t, externally_changed) ==
  IF t.state \in {GEDIT_TAB_STATE_LOADING, GEDIT_TAB_STATE_LOADING_ERROR, GEDIT_TAB_STATE_REVERTING, GEDIT_TAB_STATE_REVERTING_ERROR, GEDIT_TAB_STATE_SAVING}
    THEN TRUE
    ELSE IF t.state = GEDIT_TAB_STATE_SAVING_ERROR
      THEN FALSE
      ELSE ~gedit_document_needs_saving(t, externally_changed)

gedit_tab_get_can_close(t, externally_changed) ==
  IF t.state \in {GEDIT_TAB_STATE_LOADING, GEDIT_TAB_STATE_LOADING_ERROR, GEDIT_TAB_STATE_REVERTING, GEDIT_TAB_STATE_REVERTING_ERROR}
    THEN TRUE
    ELSE IF t.state = GEDIT_TAB_STATE_SAVING_ERROR
      THEN FALSE
      ELSE IF gedit_document_needs_saving(t, externally_changed) THEN FALSE ELSE TRUE

\* The tab and the file on disk when the window asks whether the tab can
\* be closed, and the answer once it is given.
CanCloseRequest(state, location, modified, create, externally_changed) ==
  [tab |-> [gedit_tab_init(FALSE, FALSE, 1) EXCEPT !.state = state, !.location = location, !.modified = modified, !.create = create],
   externally_changed |-> externally_changed, asked |-> FALSE, result |-> FALSE]

NoCanCloseRequest == CanCloseRequest(GEDIT_TAB_STATE_NORMAL, NoLocation, FALSE, FALSE, FALSE)

\* load() is entered without an encoding chosen by the user; the settings,
\* the metadata and the file are whatever they are at that moment.
InitEncodings ==
  /\ InitPanes(gedit_multi_notebook_init)
  /\ gedit_tab = gedit_tab_init(FALSE, FALSE, 1)
  /\ \E settings_strv \in SettingsLists, metadata_charset \in Charsets \cup {NoCharset}, file_encoding \in Encodings \cup {NoEncoding} :
       encodings = [settings_strv |-> settings_strv, metadata_charset |-> metadata_charset, file_encoding |-> file_encoding, asked |-> FALSE, candidates |-> <<>>]
  /\ can_close = NoCanCloseRequest

GetCandidateEncodings ==
  /\ ~encodings.asked
  /\ encodings' = [encodings EXCEPT !.asked = TRUE,
                                    !.candidates = get_candidate_encodings(encodings.settings_strv, encodings.metadata_charset, encodings.file_encoding)]
  /\ UNCHANGED <<mvars, tvars, cvars>>

NextEncodings == GetCandidateEncodings

InitCanClose ==
  /\ InitPanes(gedit_multi_notebook_init)
  /\ gedit_tab = gedit_tab_init(FALSE, FALSE, 1)
  /\ encodings = NoEncodingRequest
  /\ \E state \in TabStates, location \in {NoLocation, LocalFile, RemoteFile}, modified \in BOOLEAN, create \in BOOLEAN, externally_changed \in BOOLEAN :
       can_close = CanCloseRequest(state, location, modified, create, externally_changed)

GetCanClose ==
  /\ ~can_close.asked
  /\ can_close' = [can_close EXCEPT !.asked = TRUE, !.result = gedit_tab_get_can_close(can_close.tab, can_close.externally_changed)]
  /\ UNCHANGED <<mvars, tvars, evars>>

NextCanClose == GetCanClose

\* A window with one empty notebook and a tab created with the settings
\* of the editor; in InitMulti the tab stays as _gedit_tab_new leaves it.
InitTab ==
  /\ InitPanes(gedit_multi_notebook_init)
  /\ \E auto_save \in BOOLEAN, interval \in 1..MaxInterval : gedit_tab = gedit_tab_init(auto_save, FALSE, interval)
  /\ encodings = NoEncodingRequest
  /\ can_close = NoCanCloseRequest

InitMulti ==
  /\ InitPanes(gedit_multi_notebook_init)
  /\ gedit_tab = gedit_tab_init(FALSE, FALSE, 1)
  /\ encodings = NoEncodingRequest
  /\ can_close = NoCanCloseRequest

LoadFile ==
  \E location \in FileLocations, create \in BOOLEAN :
    /\ gedit_tab.in_notebook
    /\ CanLoad
    /\ AssignTab(gedit_tab_load(Tab, location, FALSE, create))

LoadStream ==
  /\ gedit_tab.in_notebook
  /\ CanLoad
  /\ AssignTab(gedit_tab_load_stream(Tab, FALSE))

Revert ==
  /\ gedit_tab.in_notebook
  /\ CanLoad
  /\ AssignTab(gedit_tab_revert(Tab))

LoadCb ==
  \E op \in gedit_tab.loads, result \in LoadResults, readonly \in BOOLEAN, already_open \in BOOLEAN :
    /\ gedit_tab.in_notebook
    /\ (result = "cancelled") = (op.token \in gedit_tab.cancelled)
    /\ AssignTab(load_cb(Tab, op, result, readonly, already_open))

LoaderProgress ==
  /\ gedit_tab.in_notebook
  /\ gedit_tab.loads # {}
  /\ AssignTab(loader_progress_cb(Tab, TRUE))

IoLoadingErrorResponse ==
  \E response_id \in Responses :
    /\ gedit_tab.in_notebook
    /\ gedit_tab.info_bar = IoLoadingErrorBar
    /\ FreeTokens(Tab) # {}
    /\ AssignTab(io_loading_error_info_bar_response(Tab, response_id))

FileAlreadyOpenResponse ==
  \E response_id \in Responses :
    /\ gedit_tab.in_notebook
    /\ gedit_tab.info_bar = FileAlreadyOpenBar
    /\ AssignTab(file_already_open_warning_info_bar_response(Tab, response_id))

LoadCancelled ==
  /\ gedit_tab.in_notebook
  /\ gedit_tab.info_bar = LoadingBar
  /\ AssignTab(load_cancelled(Tab, "GTK_RESPONSE_CANCEL"))

UnrecoverableRevertingErrorResponse ==
  /\ gedit_tab.in_notebook
  /\ gedit_tab.info_bar = UnrecoverableRevertingErrorBar
  /\ AssignTab(unrecoverable_reverting_error_info_bar_response(Tab, "GTK_RESPONSE_CANCEL"))

ExternallyModifiedNotificationResponse ==
  \E response_id \in {"GTK_RESPONSE_OK", "GTK_RESPONSE_CANCEL"} :
    /\ gedit_tab.in_notebook
    /\ gedit_tab.info_bar = ExternallyModifiedBar
    /\ CanLoad
    /\ AssignTab(externally_modified_notification_info_bar_response(Tab, response_id))

SaveAsync ==
  \E create_backup \in BOOLEAN :
    /\ gedit_tab.in_notebook
    /\ AssignTab(gedit_tab_save_async(Tab, create_backup))

SaveAsAsync ==
  \E location \in FileLocations, create_backup \in BOOLEAN :
    /\ gedit_tab.in_notebook
    /\ AssignTab(gedit_tab_save_as_async(Tab, location, create_backup))

AutoSaveTimeout ==
  \E create_backup \in BOOLEAN :
    /\ gedit_tab.in_notebook
    /\ gedit_tab.source # "none"
    /\ AssignTab(g_timeout_dispatch(Tab, create_backup))

\* The saver reports an error only for what its flags do not waive.
SaverCanReport(t, error) ==
  /\ error = "SAVER_EXTERNALLY_MODIFIED" => GTK_SOURCE_FILE_SAVER_FLAGS_IGNORE_MODIFICATION_TIME \notin t.saver_flags
  /\ error = "IO_CANT_CREATE_BACKUP" => GTK_SOURCE_FILE_SAVER_FLAGS_CREATE_BACKUP \in t.saver_flags
  /\ error = "SAVER_INVALID_CHARS" => GTK_SOURCE_FILE_SAVER_FLAGS_IGNORE_INVALID_CHARS \notin t.saver_flags

SaveCb ==
  \E error \in SaveResults :
    /\ gedit_tab.in_notebook
    /\ gedit_tab.saving
    /\ SaverCanReport(Tab, error)
    /\ AssignTab(save_cb(Tab, error))

SaverProgress ==
  /\ gedit_tab.in_notebook
  /\ gedit_tab.saving
  /\ AssignTab(saver_progress_cb(Tab, TRUE))

SavingErrorResponse ==
  \E response_id \in Responses, create_backup \in BOOLEAN :
    /\ gedit_tab.in_notebook
    /\ gedit_tab.info_bar \in {ExternallyModifiedSavingErrorBar, NoBackupSavingErrorBar, InvalidCharacterBar, UnrecoverableSavingErrorBar, ConversionErrorWhileSavingBar}
    /\ AssignTab(CASE gedit_tab.info_bar = ExternallyModifiedSavingErrorBar -> externally_modified_error_info_bar_response(Tab, response_id, create_backup)
                   [] gedit_tab.info_bar = NoBackupSavingErrorBar -> no_backup_error_info_bar_response(Tab, response_id, create_backup)
                   [] gedit_tab.info_bar = InvalidCharacterBar -> invalid_character_info_bar_response(Tab, response_id, create_backup)
                   [] gedit_tab.info_bar = UnrecoverableSavingErrorBar -> unrecoverable_saving_error_info_bar_response(Tab, response_id)
                   [] OTHER -> recoverable_saving_error_info_bar_response(Tab, response_id))

PrintRequest ==
  \E res \in {"GTK_PRINT_OPERATION_RESULT_IN_PROGRESS", "GTK_PRINT_OPERATION_RESULT_ERROR"} :
    /\ gedit_tab.in_notebook
    /\ AssignTab(gedit_tab_print(Tab, res))

ShowPreview ==
  /\ gedit_tab.in_notebook
  /\ gedit_tab.print_job
  /\ AssignTab(show_preview_cb(Tab))

DonePrinting ==
  \E result \in {"GEDIT_PRINT_JOB_RESULT_OK", "GEDIT_PRINT_JOB_RESULT_CANCEL", "GEDIT_PRINT_JOB_RESULT_ERROR"} :
    /\ gedit_tab.in_notebook
    /\ gedit_tab.print_job
    /\ AssignTab(done_printing_cb(Tab, result))

MarkForClosing ==
  /\ gedit_tab.in_notebook
  /\ AssignTab(gedit_tab_mark_for_closing(Tab))

ViewFocusedIn ==
  \E externally_modified \in BOOLEAN, readonly \in BOOLEAN :
    /\ gedit_tab.in_notebook
    /\ AssignTab(view_focused_in(Tab, externally_modified, readonly))

SetNetworkAvailable ==
  \E enable \in BOOLEAN :
    /\ gedit_tab.in_notebook
    /\ AssignTab(gedit_tab_set_network_available(Tab, enable))

SetAutoSaveEnabled ==
  \E enable \in BOOLEAN, lockdown \in BOOLEAN :
    /\ gedit_tab.in_notebook
    /\ AssignTab(gedit_tab_set_auto_save_enabled(Tab, enable, lockdown))

SetAutoSaveInterval ==
  \E interval \in 1..MaxInterval :
    /\ gedit_tab.in_notebook
    /\ AssignTab(gedit_tab_set_auto_save_interval(Tab, interval))

SetInfoBar ==
  \E info_bar \in {NoInfoBar, ForeignBar} :
    /\ gedit_tab.in_notebook
    /\ AssignTab(gedit_tab_set_info_bar(Tab, info_bar))

\* The user types into the view.
UserEdits ==
  /\ gedit_tab.in_notebook
  /\ gedit_tab.view_editable
  /\ AssignTab([Tab EXCEPT !.modified = TRUE])

NextTab ==
  \/ LoadFile
  \/ LoadStream
  \/ Revert
  \/ LoadCb
  \/ LoaderProgress
  \/ IoLoadingErrorResponse
  \/ FileAlreadyOpenResponse
  \/ LoadCancelled
  \/ UnrecoverableRevertingErrorResponse
  \/ ExternallyModifiedNotificationResponse
  \/ SaveAsync
  \/ SaveAsAsync
  \/ AutoSaveTimeout
  \/ SaveCb
  \/ SaverProgress
  \/ SavingErrorResponse
  \/ PrintRequest
  \/ ShowPreview
  \/ DonePrinting
  \/ MarkForClosing
  \/ ViewFocusedIn
  \/ SetNetworkAvailable
  \/ SetAutoSaveEnabled
  \/ SetAutoSaveInterval
  \/ SetInfoBar
  \/ UserEdits

\* ------------------------------------------------------------------------
\* Specifications
\* ------------------------------------------------------------------------
SpecMulti == InitMulti /\ [][NextMulti]_vars

SpecTab == InitTab /\ [][NextTab]_vars

\* The tab with the main loop running: a saver operation in flight
\* completes, and the user answers the info bar of a saving error while it
\* is shown.
SpecTabFair ==
  SpecTab /\ WF_vars(SaveCb) /\ WF_vars(SavingErrorResponse)

SpecEncodings == InitEncodings /\ [][NextEncodings]_vars

SpecCanClose == InitCanClose /\ [][NextCanClose]_vars

\* ------------------------------------------------------------------------
\* Properties of the pane manager
\* ------------------------------------------------------------------------
RECURSIVE SumCounts(_, _)
SumCounts(n_pages, nbs) == IF nbs = <<>> THEN 0 ELSE n_pages[Head(nbs)] + SumCounts(n_pages, Tail(nbs))

Events(sig) == {i \in 1..Len(emitted) : emitted[i].sig = sig}

Removed == Range(called.pre.notebooks) \ Range(notebooks)

\* C1: the total tab counter equals the sum of the page counts of the
\* notebooks of the list, in every state between calls and in what an
\* observer sees at every emission of tab-added, tab-removed and
\* notebook-removed.
C1_TotalIsSum ==
  /\ total_tabs = SumPages(pages, notebooks)
  /\ \A i \in 1..Len(emitted) :
       emitted[i].sig \in {"tab-added", "tab-removed", "notebook-removed"}
         => emitted[i].seen.total_tabs = SumCounts(emitted[i].seen.n_pages, emitted[i].seen.notebooks)

\* A call that removed tabs and a notebook while tabs remain elsewhere.
C1_Witness ==
  /\ Events("notebook-removed") # {}
  /\ Events("tab-removed") # {}
  /\ total_tabs > 0

\* C2: removing the last tab of a notebook other than the main one while
\* the list holds at least two notebooks removes that notebook from the
\* list and emits notebook-removed for it; removing the last tab of the only
\* notebook leaves the list as it is and sets the active tab to NULL.
C2_LastTabRemoval ==
  (called.op = "remove_tab" /\ called.pre.n_pages[called.notebook] = 1)
    => /\ (called.notebook # MainNotebook /\ Len(called.pre.notebooks) >= 2)
            => /\ called.notebook \notin Range(notebooks)
               /\ \E i \in Events("notebook-removed") : emitted[i].notebook = called.notebook
       /\ Len(called.pre.notebooks) = 1
            => /\ notebooks = called.pre.notebooks
               /\ active_tab = NULL
               /\ Events("notebook-removed") = {}

C2_Witness ==
  /\ called.op = "remove_tab"
  /\ called.pre.n_pages[called.notebook] = 1
  /\ called.notebook # MainNotebook
  /\ Len(called.pre.notebooks) >= 2
  /\ total_tabs > 0

\* C3 as the specification states it: the main notebook, created at
\* construction, is first in the list in every state.
C3_MainNeverRemoved == notebooks # <<>> /\ notebooks[1] = MainNotebook

\* C3: the list of notebooks is never empty, and a notebook (the main one
\* included) leaves the list only in a call that removed its last tab while
\* another notebook was in the list; a single tab removal takes out at most
\* the notebook of that tab, and only when the tab was its only one.
C3_OnlyEmptiedNotebooksRemoved ==
  /\ notebooks # <<>>
  /\ \A nb \in Removed :
       /\ called.pre.n_pages[nb] >= 1
       /\ Len(called.pre.notebooks) >= 2
       /\ called.op = "remove_tab" => (nb = called.notebook /\ called.pre.n_pages[nb] = 1)

\* The main notebook has been removed while another one stays.
C3_Witness == MainNotebook \notin Range(notebooks) /\ MainNotebook \in Removed

\* C4: when the list holds exactly one notebook, remove_notebook is refused
\* whatever the page count of that notebook: no field changes and nothing
\* is emitted.
C4_SoleNotebookRemovalRefused ==
  Len(notebooks) = 1
    => \A nb \in Range(notebooks) :
         LET m == remove_notebook(Multi, nb)
         IN  /\ m.notebooks = notebooks
             /\ m.active_notebook = active_notebook
             /\ m.active_tab = active_tab
             /\ m.total_tabs = total_tabs
             /\ m.pages = pages
             /\ m.emitted = <<>>

\* The only notebook of the list holds tabs.
C4_Witness == Len(notebooks) = 1 /\ Len(pages[notebooks[1]]) = MaxTabs

PrecedingPages(m, nb) == SumPages(m.pages, SubSeq(m.notebooks, 1, IndexOf(m.notebooks, nb) - 1))

\* C5: for every tab, get_page_num is the number of pages of the notebooks
\* that precede its notebook in the list plus its page number there, and
\* set_current_page with that number stops at the notebook that holds the
\* tab and selects the tab's page in it.
C5_PageNumRoundTrip ==
  \A tab \in TabsIn(Multi) :
    LET owner == find_notebook(Multi, notebooks, tab)
        local == gtk_notebook_page_num(Multi, owner, tab)
        num == gedit_multi_notebook_get_page_num(Multi, tab)
        t == set_current_page_target(Multi, num)
        m == gedit_multi_notebook_set_current_page(Multi, num)
    IN  /\ num = PrecedingPages(Multi, owner) + local
        /\ t.notebook = owner
        /\ t.single_num = local
        /\ m.current[owner] = local
        /\ m.pages = pages

\* An empty notebook precedes two notebooks that hold a tab each.
C5_Witness ==
  /\ Len(notebooks) = 3
  /\ pages[notebooks[1]] = <<>>
  /\ pages[notebooks[2]] # <<>>
  /\ pages[notebooks[3]] # <<>>

SplitOfSingle == called.op = "add_new_notebook" /\ Len(called.pre.notebooks) = 1

AddToSecond == called.op = "add_tab" /\ Len(notebooks) = 2 /\ called.notebook = notebooks[2]

\* C6 as the specification states it: after the first split there are two
\* notebooks, page number 0 resolves to the first notebook, the total has
\* grown by one and the page number of the tab added to the second notebook
\* is the page count of the first.
C6_SplitScenario ==
  /\ SplitOfSingle
       => /\ Len(notebooks) = 2
          /\ set_current_page_target(Multi, 0).notebook = notebooks[1]
          /\ total_tabs = called.pre.total_tabs + 1
          /\ gedit_multi_notebook_get_page_num(Multi, called.tab) = Len(pages[notebooks[1]])
  /\ AddToSecond
       => /\ total_tabs = called.pre.total_tabs + 1
          /\ gedit_multi_notebook_get_page_num(Multi, called.tab) = Len(pages[notebooks[1]])

\* C6: after the first split there are two notebooks, the split has added
\* one tab to the second, the total has grown by one and the page number of
\* that tab is the page count of the first notebook; page number 0 resolves
\* to the first notebook when it holds a tab and to the second otherwise.  A
\* tab added to the second notebook afterwards raises the total by one and
\* its page number is the page count of the first notebook plus its page
\* number in the second.
C6_SplitScenarioAmended ==
  /\ SplitOfSingle
       => /\ Len(notebooks) = 2
          /\ pages[notebooks[2]] = <<called.tab>>
          /\ set_current_page_target(Multi, 0).notebook = (IF pages[notebooks[1]] # <<>> THEN notebooks[1] ELSE notebooks[2])
          /\ total_tabs = called.pre.total_tabs + 1
          /\ gedit_multi_notebook_get_page_num(Multi, called.tab) = Len(pages[notebooks[1]])
  /\ AddToSecond
       => /\ total_tabs = called.pre.total_tabs + 1
          /\ gedit_multi_notebook_get_page_num(Multi, called.tab) = Len(pages[notebooks[1]]) + gtk_notebook_page_num(Multi, notebooks[2], called.tab)

\* The first split, made while the first notebook holds a tab.
C6_Witness == SplitOfSingle /\ pages[notebooks[1]] # <<>>

\* ------------------------------------------------------------------------
\* Properties of the tab
\* ------------------------------------------------------------------------
Count(t, ev) == Cardinality({i \in 1..Len(t.log) : t.log[i].ev = ev})

\* What a load request, from a location or from a stream, makes of the tab.
LoadRequests ==
  {gedit_tab_load(Tab, location, FALSE, create) : location \in FileLocations, create \in BOOLEAN}
    \cup {gedit_tab_load_stream(Tab, FALSE)}

\* C7: from Normal a load request (from a location or from a stream) moves
\* the tab to Loading and starts exactly one asynchronous load, on a new
\* loader and with a cancellable no earlier operation has used; in every
\* other state the request is refused and the state, the loader and the
\* location of the document stay as they are.
C7_LoadOnlyFromNormal ==
  (gedit_tab.in_notebook /\ CanLoad) =>
    \A r \in LoadRequests :
      IF gedit_tab.state = GEDIT_TAB_STATE_NORMAL
        THEN /\ r.state = GEDIT_TAB_STATE_LOADING
             /\ Count(r, "load_async") = 1
             /\ Count(r, "load_async_rejected") = 0
             /\ r.cancellable # NULL
             /\ r.cancellable \notin UsedTokens(Tab)
             /\ r.loader # NULL
             /\ r.loader \notin UsedLoaders(Tab)
             /\ r.loads = Tab.loads \cup {[loader |-> r.loader, token |-> r.cancellable]}
        ELSE /\ r.state = Tab.state
             /\ r.loader = Tab.loader
             /\ r.location = Tab.location
             /\ r.loads = Tab.loads
             /\ r.log = <<>>

\* A load from a location has been started from Normal: the tab is in
\* Loading and the only load in flight is that of its loader and cancellable.
C7_Witness ==
  /\ gedit_tab.state = GEDIT_TAB_STATE_LOADING
  /\ gedit_tab.info_bar = NoInfoBar
  /\ gedit_tab.loads = {[loader |-> gedit_tab.loader, token |-> gedit_tab.cancellable]}
  /\ gedit_tab.location = LocalFile
  /\ gedit_tab.create

PrintResults == {"GTK_PRINT_OPERATION_RESULT_IN_PROGRESS", "GTK_PRINT_OPERATION_RESULT_ERROR"}

\* C8 as stated: in every state other than Normal a print request creates
\* no print job, does not enter Printing and leaves the state unchanged.
C8_PrintOnlyInNormal ==
  (gedit_tab.in_notebook /\ gedit_tab.state # GEDIT_TAB_STATE_NORMAL) =>
    \A res \in PrintResults :
      LET r == gedit_tab_print(Tab, res)
      IN  /\ r.state = Tab.state
          /\ Count(r, "print_job_print") = 0
          /\ r.print_job = Tab.print_job

\* C8, amended: a print request is refused, and changes nothing, in every
\* state other than Normal and ShowingPrintPreview; in ShowingPrintPreview
\* the preview is closed and a new print job is started, which leaves the
\* tab in Printing, or in Normal when the job fails to start.
C8_PrintRefusedUnlessNormalOrPreview ==
  (gedit_tab.in_notebook /\ gedit_tab.state # GEDIT_TAB_STATE_NORMAL) =>
    \A res \in PrintResults :
      LET r == gedit_tab_print(Tab, res)
      IN  IF gedit_tab.state = GEDIT_TAB_STATE_SHOWING_PRINT_PREVIEW
            THEN /\ Count(r, "print_job_print") = 1
                 /\ ~r.print_preview
                 /\ res = "GTK_PRINT_OPERATION_RESULT_IN_PROGRESS" => (r.state = GEDIT_TAB_STATE_PRINTING /\ r.print_job /\ r.info_bar = PrintingBar)
                 /\ res = "GTK_PRINT_OPERATION_RESULT_ERROR" => (r.state = GEDIT_TAB_STATE_NORMAL /\ ~r.print_job)
            ELSE r = Tab

\* A print preview is shown, and a print request made now starts a job.
C8_Witness ==
  /\ gedit_tab.state = GEDIT_TAB_STATE_SHOWING_PRINT_PREVIEW
  /\ gedit_tab.print_preview
  /\ gedit_tab_print(Tab, "GTK_PRINT_OPERATION_RESULT_IN_PROGRESS").state = GEDIT_TAB_STATE_PRINTING

\* C9 as stated: when the timeout of the auto-save fires and the buffer is
\* not modified, no save is started, the state, the task of the saver, the
\* long-lived save flags and the installed timeout are unchanged, and the
\* callback returns G_SOURCE_CONTINUE.
C9_UnmodifiedTickChangesNothing ==
  (gedit_tab.in_notebook /\ gedit_tab.source # "none" /\ ~gedit_tab.modified) =>
    \A create_backup \in BOOLEAN :
      LET r == g_timeout_dispatch(Tab, create_backup)
      IN  /\ LoggedArgs(r, "return") = {G_SOURCE_CONTINUE}
          /\ Count(r, "save") = 0
          /\ r.state = Tab.state
          /\ r.task_saver = Tab.task_saver
          /\ r.save_flags = Tab.save_flags
          /\ r.auto_save_timeout = Tab.auto_save_timeout
          /\ r.source = Tab.source

\* The flags of every save the call has handed to a saver.
SaverFlags(r) == LoggedArgs(r, "save_async")

\* C10: a save launched by the timeout of the auto-save never asks the
\* saver for a backup, whatever the setting and the long-lived flags are; a
\* save or save-as launched by the user with the setting on does.
C10_AutoSaveNeverCreatesBackup ==
  gedit_tab.in_notebook =>
    /\ gedit_tab.source # "none" =>
         \A create_backup \in BOOLEAN :
           \A flags \in SaverFlags(gedit_tab_auto_save(Tab, create_backup)) :
             /\ GTK_SOURCE_FILE_SAVER_FLAGS_CREATE_BACKUP \notin flags
             /\ flags = Tab.save_flags
    /\ \A flags \in SaverFlags(gedit_tab_save_async(Tab, TRUE)) :
         flags \ {GTK_SOURCE_FILE_SAVER_FLAGS_IGNORE_MODIFICATION_TIME} = Tab.save_flags \cup {GTK_SOURCE_FILE_SAVER_FLAGS_CREATE_BACKUP}
    /\ \A location \in FileLocations :
         \A flags \in SaverFlags(gedit_tab_save_as_async(Tab, location, TRUE)) :
           flags \ {GTK_SOURCE_FILE_SAVER_FLAGS_IGNORE_MODIFICATION_TIME} = {GTK_SOURCE_FILE_SAVER_FLAGS_CREATE_BACKUP}

\* The timeout is installed, the long-lived flags are not empty, and a
\* tick now launches a save although the setting asks for backups; a save
\* by the user would launch one too.
C10_Witness ==
  /\ gedit_tab.source # "none"
  /\ gedit_tab.save_flags # GTK_SOURCE_FILE_SAVER_FLAGS_NONE
  /\ SaverFlags(gedit_tab_auto_save(Tab, TRUE)) # {}
  /\ SaverFlags(gedit_tab_save_async(Tab, TRUE)) # {}
  /\ SaverFlags(gedit_tab_save_as_async(Tab, LocalFile, TRUE)) # {}

\* ------------------------------------------------------------------------
\* Properties of the candidate encodings
\* ------------------------------------------------------------------------
\* The list the settings stand for: their encodings, or the built-in list
\* when the setting is empty.
SettingsOrDefault ==
  IF encodings.settings_strv # <<>>
    THEN gedit_utils_encoding_strv_to_list(encodings.settings_strv)
    ELSE gtk_source_encoding_get_default_candidates

\* Number of encodings put before that list.
Prepended ==
  (IF encodings.file_encoding # NoEncoding THEN 1 ELSE 0)
    + (IF gtk_source_encoding_get_from_charset(encodings.metadata_charset) # NoEncoding THEN 1 ELSE 0)

\* C11: the candidates are, in order, the encoding of the file if it has
\* one, the encoding of the charset of the metadata if there is one and it
\* names an encoding, then the list of the settings or, when that setting
\* is empty, the whole built-in list; nothing is removed, so an encoding
\* can occur twice.  With empty settings, metadata ISO-8859-1 and no file
\* encoding the list is ISO-8859-1 followed by the built-in list.
C11_CandidateOrder ==
  encodings.asked =>
    LET c == encodings.candidates
        f == encodings.file_encoding
        m == encodings.metadata_charset
    IN  /\ Len(c) = Prepended + Len(SettingsOrDefault)
        /\ SubSeq(c, Prepended + 1, Len(c)) = SettingsOrDefault
        /\ f # NoEncoding => c[1] = f
        /\ m = "ISO-8859-1" => c[Prepended] = ISO_8859_1
        /\ m = "UTF-8" => c[Prepended] = UTF_8
        /\ m \in {NoCharset, "x-unknown"} => Prepended = (IF f # NoEncoding THEN 1 ELSE 0)
        /\ (encodings.settings_strv = <<>> /\ m = "ISO-8859-1" /\ f = NoEncoding) =>
             c = <<ISO_8859_1, UTF_8, ISO_8859_15>>

\* The candidates were asked for with a file encoding and a metadata
\* charset that both name the first encoding of the built-in list, which
\* then occurs three times.
C11_Witness ==
  /\ encodings.asked
  /\ encodings.settings_strv = <<>>
  /\ encodings.file_encoding = UTF_8
  /\ encodings.metadata_charset = "UTF-8"
  /\ encodings.candidates = <<UTF_8, UTF_8, UTF_8, ISO_8859_15>>

\* ------------------------------------------------------------------------
\* Properties of saving
\* ------------------------------------------------------------------------
\* The info bar the classification of the errors of a save prescribes, rule
\* by rule, the first rule that matches winning.
PrescribedBar(error) ==
  CASE error = "SAVER_EXTERNALLY_MODIFIED" -> ExternallyModifiedSavingErrorBar
    [] error = "IO_CANT_CREATE_BACKUP" -> NoBackupSavingErrorBar
    [] error = "SAVER_INVALID_CHARS" -> InvalidCharacterBar
    [] error = "SAVER_OTHER" -> UnrecoverableSavingErrorBar
    [] error = "IO_OTHER" -> UnrecoverableSavingErrorBar
    [] error \in {"IO_INVALID_DATA", "IO_PARTIAL_INPUT", "CONVERT"} -> ConversionErrorWhileSavingBar

\* C12 as stated: every completion of a save with an error puts the tab in
\* SavingError and shows the one info bar the classification prescribes
\* for the error.
C12_SaveErrorClassified ==
  (gedit_tab.in_notebook /\ gedit_tab.saving) =>
    \A error \in SaveResults \ {"ok"} :
      SaverCanReport(Tab, error) =>
        LET r == save_cb(Tab, error)
        IN  /\ r.state = GEDIT_TAB_STATE_SAVING_ERROR
            /\ r.info_bar = PrescribedBar(error)

\* ------------------------------------------------------------------------
\* Properties of the operations in flight
\* ------------------------------------------------------------------------
\* What each way of asking for a load or a revert makes of the tab: the
\* requests of the window and the responses of the info bars shown.
LoadAttempts ==
  LoadRequests
    \cup {gedit_tab_revert(Tab)}
    \cup (IF gedit_tab.info_bar = IoLoadingErrorBar THEN {io_loading_error_info_bar_response(Tab, "GTK_RESPONSE_OK")} ELSE {})
    \cup (IF gedit_tab.info_bar = ExternallyModifiedBar THEN {externally_modified_notification_info_bar_response(Tab, "GTK_RESPONSE_OK")} ELSE {})

SaveRefused(t, r) ==
  /\ Count(r, "save") = 0
  /\ Count(r, "save_async") = 0
  /\ r.task_saver
  /\ r.saving = t.saving
  /\ r.saver_flags = t.saver_flags
  /\ r.force_no_backup = t.force_no_backup
  /\ r.saver_target = t.saver_target
  /\ r.state = t.state
  /\ r.info_bar = t.info_bar

\* A response to the info bar of a saving error started at most the next
\* attempt of the task t had, and only when none was running.
SaveRetried(t, r) ==
  /\ Count(r, "save_async_rejected") = 0
  /\ Count(r, "save_async") <= 1
  /\ Count(r, "save_async") = 1 =>
       (t.task_saver /\ r.task_saver /\ ~t.saving /\ r.saving /\ r.saver_target = t.saver_target)

\* C14: while the task of a save exists, a save, a save-as and a tick of
\* the auto-save start nothing and leave the task, the flags of its saver,
\* the state and the info bar as they are; a retry from the info bar of a
\* saving error keeps the task and starts its one operation only when none
\* is running, so that a saver is never asked to run two at once.
C14_OneSaveInFlight ==
  gedit_tab.in_notebook =>
    /\ gedit_tab.saving => gedit_tab.task_saver
    /\ \A create_backup \in BOOLEAN :
         /\ Count(gedit_tab_save_async(Tab, create_backup), "save_async_rejected") = 0
         /\ gedit_tab.task_saver => SaveRefused(Tab, gedit_tab_save_async(Tab, create_backup))
         /\ \A location \in FileLocations :
              /\ Count(gedit_tab_save_as_async(Tab, location, create_backup), "save_async_rejected") = 0
              /\ gedit_tab.task_saver => SaveRefused(Tab, gedit_tab_save_as_async(Tab, location, create_backup))
         /\ gedit_tab.source # "none" =>
              /\ Count(gedit_tab_auto_save(Tab, create_backup), "save_async_rejected") = 0
              /\ gedit_tab.task_saver => SaveRefused(Tab, gedit_tab_auto_save(Tab, create_backup))
         /\ \A response_id \in Responses :
              /\ gedit_tab.info_bar = ExternallyModifiedSavingErrorBar =>
                   SaveRetried(Tab, externally_modified_error_info_bar_response(Tab, response_id, create_backup))
              /\ gedit_tab.info_bar = NoBackupSavingErrorBar =>
                   SaveRetried(Tab, no_backup_error_info_bar_response(Tab, response_id, create_backup))
              /\ gedit_tab.info_bar = InvalidCharacterBar =>
                   SaveRetried(Tab, invalid_character_info_bar_response(Tab, response_id, create_backup))
              /\ gedit_tab.info_bar = UnrecoverableSavingErrorBar =>
                   SaveRetried(Tab, unrecoverable_saving_error_info_bar_response(Tab, response_id))
              /\ gedit_tab.info_bar = ConversionErrorWhileSavingBar =>
                   SaveRetried(Tab, recoverable_saving_error_info_bar_response(Tab, response_id))

\* The task of a save exists with no operation running: a further save is
\* turned down with the warning alone, and the tick of the auto-save too.
C14_Witness ==
  /\ gedit_tab.in_notebook
  /\ gedit_tab.task_saver
  /\ gedit_tab.source # "none"
  /\ Count(gedit_tab_save_async(Tab, TRUE), "g_warning") = 1
  /\ Count(gedit_tab_auto_save(Tab, TRUE), "g_warning") = 1

\* C15: a loader operation and a saver operation of one tab are never in
\* flight together.
C15_LoadAndSaveExclusive ==
  ~(gedit_tab.loads # {} /\ gedit_tab.saving)

\* C16: when every saver operation completes and the user answers each
\* info bar of a saving error, the tab does not stay in SavingError for
\* ever, and does not stay in Saving for ever, whichever other info bars
\* are set meanwhile.
C16_SaveIsResolved ==
  /\ []<>(gedit_tab.state # GEDIT_TAB_STATE_SAVING_ERROR)
  /\ []<>(gedit_tab.state # GEDIT_TAB_STATE_SAVING)

\* The timeout of the auto-save is installed on t.
TimerInstalled(t) == t.source # "none"

\* What update_auto_save_timeout asks for before it installs the timeout.
TimerWanted(t) ==
  /\ t.state = GEDIT_TAB_STATE_NORMAL
  /\ t.auto_save
  /\ t.location # NoLocation
  /\ ~t.readonly

\* C17: the timeout of the auto-save is installed only in Normal with the
\* auto-save enabled; right after a change of state, of the auto-save
\* setting or of its interval it is installed exactly when the document
\* also has a location and is writable; and entering a state other than
\* Normal removes it, so that it never fires there.
C17_AutoSaveTimerOnlyInNormal ==
  gedit_tab.in_notebook =>
    /\ TimerInstalled(gedit_tab) =>
         /\ gedit_tab.state = GEDIT_TAB_STATE_NORMAL
         /\ gedit_tab.auto_save
         /\ gedit_tab.auto_save_timeout # 0
    /\ \A state \in TabStates \ {gedit_tab.state} :
         LET r == gedit_tab_set_state(Tab, state)
         IN  /\ r.state = state
             /\ TimerInstalled(r) <=> TimerWanted(r)
             /\ state # GEDIT_TAB_STATE_NORMAL => (~TimerInstalled(r) /\ r.auto_save_timeout = 0)
    /\ \A enable \in BOOLEAN, lockdown \in BOOLEAN :
         LET r == gedit_tab_set_auto_save_enabled(Tab, enable, lockdown)
         IN  r.auto_save # Tab.auto_save => (TimerInstalled(r) <=> TimerWanted(r))
    /\ \A interval \in 1..(MaxInterval + 1) :
         LET r == gedit_tab_set_auto_save_interval(Tab, interval)
         IN  r.auto_save_interval # Tab.auto_save_interval => (TimerInstalled(r) <=> TimerWanted(r))

\* The timeout is installed; a save is asked for, and entering Saving
\* removes it.
C17_Witness ==
  /\ gedit_tab.in_notebook
  /\ TimerInstalled(gedit_tab)
  /\ ~gedit_tab.task_saver
  /\ gedit_tab_save_async(Tab, TRUE).state = GEDIT_TAB_STATE_SAVING
  /\ ~TimerInstalled(gedit_tab_save_async(Tab, TRUE))

\* C18: after every operation of the pane manager the active tab is NULL
\* exactly when no notebook holds a tab.
C18_ActiveTabNullIffNoTabs ==
  (active_tab = NULL) <=> (total_tabs = 0)

\* C19: a tab that is loading or reverting, or stopped at an error of
\* either, can be closed whether its document is modified or not; a tab
\* stopped at a saving error cannot; in every other state the tab can be
\* closed exactly when its document does not need saving.
C19_CanClose ==
  can_close.asked =>
    LET state == can_close.tab.state
    IN  /\ state \in {GEDIT_TAB_STATE_LOADING, GEDIT_TAB_STATE_LOADING_ERROR, GEDIT_TAB_STATE_REVERTING, GEDIT_TAB_STATE_REVERTING_ERROR} => can_close.result = TRUE
        /\ state = GEDIT_TAB_STATE_SAVING_ERROR => can_close.result = FALSE
        /\ state \notin {GEDIT_TAB_STATE_LOADING, GEDIT_TAB_STATE_LOADING_ERROR, GEDIT_TAB_STATE_REVERTING, GEDIT_TAB_STATE_REVERTING_ERROR, GEDIT_TAB_STATE_SAVING_ERROR} =>
             (can_close.result <=> ~(can_close.tab.modified \/ (can_close.tab.location = LocalFile /\ can_close.externally_changed /\ ~can_close.tab.create)))

\* A tab that is saving a modified document is asked and cannot be closed.
C19_Witness ==
  /\ can_close.asked
  /\ can_close.tab.state = GEDIT_TAB_STATE_SAVING
  /\ can_close.tab.modified
  /\ ~can_close.result

\* The pane manager after k calls of gedit_multi_notebook_next_notebook.
RECURSIVE NextTimes(_, _)
NextTimes(m, k) == IF k = 0 THEN m ELSE NextTimes(gedit_multi_notebook_next_notebook(m), k - 1)

\* C20: with the active notebook at place cur of a list of n, next makes
\* the notebook at the following place the active one and previous the one
\* at the preceding place, both wrapping round; previous after next, and n
\* times next, give the active notebook back; the list and the number of
\* tabs stay as they are.
C20_CyclicNavigation ==
  active_notebook \in Range(notebooks) =>
    LET n == Len(notebooks)
        cur == IndexOf(notebooks, active_notebook)
        next == gedit_multi_notebook_next_notebook(Multi)
        previous == gedit_multi_notebook_previous_notebook(Multi)
    IN  /\ next.active_notebook = notebooks[(cur % n) + 1]
        /\ previous.active_notebook = notebooks[((cur + n - 2) % n) + 1]
        /\ gedit_multi_notebook_previous_notebook(next).active_notebook = active_notebook
        /\ NextTimes(Multi, n).active_notebook = active_notebook
        /\ next.notebooks = notebooks /\ next.total_tabs = total_tabs
        /\ previous.notebooks = notebooks /\ previous.total_tabs = total_tabs

\* The notebook that follows nb in the list l, the first one after the last.
Successor(l, nb) == IF IndexOf(l, nb) < Len(l) THEN l[IndexOf(l, nb) + 1] ELSE l[1]

\* The page a notebook shows, NULL when it has none.
CurrentTab(nb) == IF current[nb] >= 0 /\ current[nb] < Len(pages[nb]) THEN pages[nb][current[nb] + 1] ELSE NULL

\* C21: the removal of the only tab of a notebook that is not the only one
\* takes the notebook out of the list, emits notebook-removed once for it,
\* and leaves as active notebook the one that followed it in the list (the
\* first one when it was last) and as active tab the page that one shows.
C21_RemovalFocusesSuccessor ==
  (called.op = "remove_tab" /\ called.pre.n_pages[called.notebook] = 1 /\ Len(called.pre.notebooks) >= 2)
    => /\ notebooks = RemoveElem(called.pre.notebooks, called.notebook)
       /\ Cardinality({i \in Events("notebook-removed") : emitted[i].notebook = called.notebook}) = 1
       /\ active_notebook = Successor(called.pre.notebooks, called.notebook)
       /\ active_tab = CurrentTab(Successor(called.pre.notebooks, called.notebook))

\* C22: closing all the tabs leaves no page in any notebook, a tab count
\* of 0, no active tab and one notebook in the list; tab-removed has been
\* emitted for every tab of every notebook the list held at the call.
C22_CloseAllTabs ==
  called.op = "close_all_tabs" =>
    /\ total_tabs = 0
    /\ active_tab = NULL
    /\ Len(notebooks) = 1
    /\ \A nb \in NotebookIds : pages[nb] = <<>>
    /\ Cardinality(Events("tab-removed")) = called.pre.total_tabs
    /\ \A nb \in Range(called.pre.notebooks) :
         Cardinality({i \in Events("tab-removed") : emitted[i].notebook = nb}) = called.pre.n_pages[nb]

\* All the tabs were closed when the list held three notebooks, two of them
\* with a tab.
C22_Witness ==
  /\ called.op = "close_all_tabs"
  /\ Len(called.pre.notebooks) = 3
  /\ called.pre.total_tabs = 2
  /\ Cardinality(Events("notebook-removed")) = 2

\* The places of the emissions of sig in the last call, in order.
FirstEvent(sig) == CHOOSE i \in Events(sig) : \A j \in Events(sig) : i <= j

\* C23: adding a new notebook appends one notebook to the list and adds one
\* tab to it; notebook-added is emitted before tab-added, no change of the
\* active tab or of the active notebook is notified before the tab is in,
\* and at the end the new notebook is the active one and the new tab the
\* active tab.
C23_AddNewNotebook ==
  called.op = "add_new_notebook" =>
    /\ notebooks = Append(called.pre.notebooks, called.notebook)
    /\ called.notebook \notin Range(called.pre.notebooks)
    /\ pages[called.notebook] = <<called.tab>>
    /\ total_tabs = called.pre.total_tabs + 1
    /\ Cardinality(Events("notebook-added")) = 1
    /\ Cardinality(Events("tab-added")) = 1
    /\ FirstEvent("notebook-added") < FirstEvent("tab-added")
    /\ \A i \in Events("active-tab") \cup Events("active-notebook") : i > FirstEvent("tab-added")
    /\ active_notebook = called.notebook
    /\ active_tab = called.tab

\* C24 as the specification states it: right after a change of state, in
\* Loading and Closing the view is not editable and shows no cursor, and in
\* every other state the view is editable exactly when the editable flag of
\* the tab is set.
C24_ViewEditableByFlag ==
  gedit_tab.in_notebook =>
    \A state \in TabStates \ {gedit_tab.state} :
      LET r == gedit_tab_set_state(Tab, state)
      IN  IF state \in {GEDIT_TAB_STATE_LOADING, GEDIT_TAB_STATE_CLOSING}
            THEN ~r.view_editable /\ ~r.cursor_visible
            ELSE r.view_editable <=> r.editable

\* C24: right after a change of state the view is editable exactly when the
\* new state is Normal and the editable flag of the tab is set, and the
\* cursor is visible exactly when the new state is neither Loading nor
\* Closing.
C24_ViewFollowsState ==
  gedit_tab.in_notebook =>
    \A state \in TabStates \ {gedit_tab.state} :
      LET r == gedit_tab_set_state(Tab, state)
      IN  /\ r.state = state
          /\ r.editable = Tab.editable
          /\ r.view_editable <=> (state = GEDIT_TAB_STATE_NORMAL /\ r.editable)
          /\ r.cursor_visible <=> (state \notin {GEDIT_TAB_STATE_LOADING, GEDIT_TAB_STATE_CLOSING})

\* A tab whose editable flag is set is in Normal with an editable view, and
\* a save puts it in Saving with a view that is not editable.
C24_Witness ==
  /\ gedit_tab.in_notebook
  /\ gedit_tab.state = GEDIT_TAB_STATE_NORMAL
  /\ gedit_tab.editable
  /\ gedit_tab.view_editable
  /\ gedit_tab_save_async(Tab, TRUE).state = GEDIT_TAB_STATE_SAVING
  /\ gedit_tab_save_async(Tab, TRUE).editable
  /\ ~gedit_tab_save_async(Tab, TRUE).view_editable

\* A call that changed no state left the view as editable as it was, and
\* the timeout of the auto-save installed or not as it was.
SameEditability(t, r) == Count(r, "notify::state") = 0 => r.view_editable = t.view_editable

SameScheduling(t, r) == Count(r, "notify::state") = 0 => (TimerInstalled(r) <=> TimerInstalled(t))

Untouched(t, r) == SameEditability(t, r) /\ SameScheduling(t, r)

\* C25 as the specification states it: no answer to an info bar and no
\* change of the auto-save setting changes, without a change of state,
\* whether the view is editable or whether the timeout is installed.
C25_OnlyTransitionsMutate ==
  gedit_tab.in_notebook =>
    /\ \A response_id \in Responses :
         /\ (gedit_tab.info_bar = IoLoadingErrorBar /\ FreeTokens(Tab) # {}) => Untouched(Tab, io_loading_error_info_bar_response(Tab, response_id))
         /\ gedit_tab.info_bar = FileAlreadyOpenBar => Untouched(Tab, file_already_open_warning_info_bar_response(Tab, response_id))
    /\ \A enable \in BOOLEAN, lockdown \in BOOLEAN : Untouched(Tab, gedit_tab_set_auto_save_enabled(Tab, enable, lockdown))

\* The saving-error responses, one by one, for the info bar that is shown.
SavingErrorResponsesUntouched ==
  \A response_id \in Responses, create_backup \in BOOLEAN :
    /\ gedit_tab.info_bar = ExternallyModifiedSavingErrorBar => Untouched(Tab, externally_modified_error_info_bar_response(Tab, response_id, create_backup))
    /\ gedit_tab.info_bar = NoBackupSavingErrorBar => Untouched(Tab, no_backup_error_info_bar_response(Tab, response_id, create_backup))
    /\ gedit_tab.info_bar = InvalidCharacterBar => Untouched(Tab, invalid_character_info_bar_response(Tab, response_id, create_backup))
    /\ gedit_tab.info_bar = UnrecoverableSavingErrorBar => Untouched(Tab, unrecoverable_saving_error_info_bar_response(Tab, response_id))
    /\ gedit_tab.info_bar = ConversionErrorWhileSavingBar => Untouched(Tab, recoverable_saving_error_info_bar_response(Tab, response_id))

\* C25: without a change of state, the view becomes editable only by the
\* YES answer to the info bar of a fallback load or of a file already open
\* (which sets the editable flag too), and never stops being editable; the
\* timeout of the auto-save is installed or removed only by a change of the
\* auto-save setting or of its interval, and is removed besides only when
\* its callback does not return G_SOURCE_CONTINUE; every other request,
\* completion and answer leaves both as they are.
C25_MutatorsOfViewAndTimer ==
  gedit_tab.in_notebook =>
    /\ \A response_id \in Responses :
         /\ (gedit_tab.info_bar = IoLoadingErrorBar /\ FreeTokens(Tab) # {}) =>
              LET r == io_loading_error_info_bar_response(Tab, response_id)
              IN  /\ SameScheduling(Tab, r)
                  /\ (response_id # "GTK_RESPONSE_YES" \/ Tab.loader = NULL) => SameEditability(Tab, r)
                  /\ (response_id = "GTK_RESPONSE_YES" /\ Tab.loader # NULL) => (r.view_editable /\ r.editable /\ r.state = Tab.state)
         /\ gedit_tab.info_bar = FileAlreadyOpenBar =>
              LET r == file_already_open_warning_info_bar_response(Tab, response_id)
              IN  /\ SameScheduling(Tab, r)
                  /\ response_id # "GTK_RESPONSE_YES" => SameEditability(Tab, r)
                  /\ response_id = "GTK_RESPONSE_YES" => (r.view_editable /\ r.editable /\ r.state = Tab.state)
    /\ \A enable \in BOOLEAN, lockdown \in BOOLEAN :
         LET r == gedit_tab_set_auto_save_enabled(Tab, enable, lockdown)
         IN  /\ SameEditability(Tab, r)
             /\ r.state = Tab.state
             /\ r.auto_save = Tab.auto_save => SameScheduling(Tab, r)
    /\ \A interval \in 1..(MaxInterval + 1) :
         LET r == gedit_tab_set_auto_save_interval(Tab, interval)
         IN  /\ SameEditability(Tab, r)
             /\ r.state = Tab.state
             /\ r.auto_save_interval = Tab.auto_save_interval => SameScheduling(Tab, r)
    /\ TimerInstalled(gedit_tab) =>
         \A create_backup \in BOOLEAN :
           LET r == g_timeout_dispatch(Tab, create_backup)
           IN  /\ SameEditability(Tab, r)
               /\ (Count(r, "notify::state") = 0 /\ G_SOURCE_CONTINUE \in LoggedArgs(r, "return")) => TimerInstalled(r)
    /\ CanLoad =>
         /\ \A location \in FileLocations, create \in BOOLEAN : Untouched(Tab, gedit_tab_load(Tab, location, FALSE, create))
         /\ Untouched(Tab, gedit_tab_load_stream(Tab, FALSE))
         /\ Untouched(Tab, gedit_tab_revert(Tab))
         /\ gedit_tab.info_bar = ExternallyModifiedBar =>
              \A response_id \in {"GTK_RESPONSE_OK", "GTK_RESPONSE_CANCEL"} : Untouched(Tab, externally_modified_notification_info_bar_response(Tab, response_id))
    /\ \A op \in gedit_tab.loads, result \in LoadResults, readonly \in BOOLEAN, already_open \in BOOLEAN :
         (result = "cancelled") = (op.token \in gedit_tab.cancelled) => Untouched(Tab, load_cb(Tab, op, result, readonly, already_open))
    /\ gedit_tab.loads # {} => Untouched(Tab, loader_progress_cb(Tab, TRUE))
    /\ gedit_tab.info_bar = LoadingBar => Untouched(Tab, load_cancelled(Tab, "GTK_RESPONSE_CANCEL"))
    /\ gedit_tab.info_bar = UnrecoverableRevertingErrorBar => Untouched(Tab, unrecoverable_reverting_error_info_bar_response(Tab, "GTK_RESPONSE_CANCEL"))
    /\ \A create_backup \in BOOLEAN :
         /\ Untouched(Tab, gedit_tab_save_async(Tab, create_backup))
         /\ \A location \in FileLocations : Untouched(Tab, gedit_tab_save_as_async(Tab, location, create_backup))
    /\ gedit_tab.saving =>
         /\ \A error \in SaveResults : SaverCanReport(Tab, error) => Untouched(Tab, save_cb(Tab, error))
         /\ Untouched(Tab, saver_progress_cb(Tab, TRUE))
    /\ SavingErrorResponsesUntouched
    /\ \A res \in {"GTK_PRINT_OPERATION_RESULT_IN_PROGRESS", "GTK_PRINT_OPERATION_RESULT_ERROR"} : Untouched(Tab, gedit_tab_print(Tab, res))
    /\ gedit_tab.print_job =>
         /\ Untouched(Tab, show_preview_cb(Tab))
         /\ \A result \in {"GEDIT_PRINT_JOB_RESULT_OK", "GEDIT_PRINT_JOB_RESULT_CANCEL", "GEDIT_PRINT_JOB_RESULT_ERROR"} : Untouched(Tab, done_printing_cb(Tab, result))
    /\ Untouched(Tab, gedit_tab_mark_for_closing(Tab))
    /\ \A externally_modified \in BOOLEAN, readonly \in BOOLEAN : Untouched(Tab, view_focused_in(Tab, externally_modified, readonly))
    /\ \A enable \in BOOLEAN : Untouched(Tab, gedit_tab_set_network_available(Tab, enable))
    /\ \A info_bar \in {NoInfoBar, ForeignBar} : Untouched(Tab, gedit_tab_set_info_bar(Tab, info_bar))

\* The info bar of a file already open is shown over a view that is not
\* editable; the YES answer makes it editable and the state stays.
C25_Witness ==
  /\ gedit_tab.in_notebook
  /\ gedit_tab.info_bar = FileAlreadyOpenBar
  /\ ~gedit_tab.view_editable
  /\ file_already_open_warning_info_bar_response(Tab, "GTK_RESPONSE_YES").view_editable
  /\ Count(file_already_open_warning_info_bar_response(Tab, "GTK_RESPONSE_YES"), "notify::state") = 0

\* C26: marking the tab for closing moves it from Normal to Closing and
\* does nothing in any other state; and once the tab is in Closing, no
\* step changes its state.
C26_ClosingIsTerminal ==
  /\ [](gedit_tab.in_notebook =>
          LET r == gedit_tab_mark_for_closing(Tab)
          IN  IF gedit_tab.state = GEDIT_TAB_STATE_NORMAL
                THEN r.state = GEDIT_TAB_STATE_CLOSING
                ELSE r = Tab)
  /\ [][gedit_tab.state = GEDIT_TAB_STATE_CLOSING => gedit_tab'.state = GEDIT_TAB_STATE_CLOSING]_vars

\* ---------------------------------------------------------------------
\* Cancellation of a load or a revert (load_cb, load_cancelled).

TokensInFlight(t) == {op.token : op \in t.loads}

\* load_cb with a cancelled error removes the tab and presents no info bar.
CancelledLoadRemovesTab ==
  \A op \in gedit_tab.loads, readonly \in BOOLEAN, already_open \in BOOLEAN :
    op.token \in gedit_tab.cancelled =>
      LET r == load_cb(Tab, op, "cancelled", readonly, already_open)
      IN  /\ ~r.in_notebook
          /\ Count(r, "remove_tab") = 1
          /\ r.info_bar = NoInfoBar
          /\ r.state \in {GEDIT_TAB_STATE_LOADING_ERROR, GEDIT_TAB_STATE_REVERTING_ERROR}

\* Every attempt started by load() carries a token no earlier attempt used.
FreshTokenPerAttempt ==
  (Tab.loader # NULL /\ FreeTokens(Tab) # {}) =>
    LET r == load(Tab, NULL)
    IN  /\ r.cancellable \notin UsedTokens(Tab)
        /\ TokensInFlight(r) \ TokensInFlight(Tab) \subseteq {r.cancellable}

\* The cancel response of the progress bar cancels the token of the attempt
\* that is running.
CancelReachesTheAttempt ==
  (gedit_tab.info_bar = LoadingBar /\ gedit_tab.loads # {}) =>
    LET r == load_cancelled(Tab, "GTK_RESPONSE_CANCEL")
    IN  /\ r.cancelled \ Tab.cancelled \subseteq TokensInFlight(Tab)
        /\ TokensInFlight(Tab) \subseteq r.cancelled

\* C27: a load or revert that completes with a cancelled error removes the
\* tab from its pane and presents no error info bar; the cancel response of
\* the progress info bar cancels the token created for the attempt in
\* flight, and every attempt gets a fresh token.
C27_CancelledLoad ==
  /\ CancelledLoadRemovesTab
  /\ FreshTokenPerAttempt
  /\ CancelReachesTheAttempt

\* ---------------------------------------------------------------------
\* Fatal errors of a load (load_cb).

NamedNewDoc(t, result) == t.create /\ result = "not_found" /\ t.location = LocalFile

FatalResults == {"not_found", "error"}

\* The result of load_cb for a file named on creation that does not exist.
NamedNewDocOpened(t, r) ==
  /\ r.in_notebook
  /\ Count(r, "remove_tab") = 0
  /\ r.state = GEDIT_TAB_STATE_NORMAL
  /\ r.info_bar \in {NoInfoBar, FileAlreadyOpenBar}
  /\ Count(r, "recent_add") = 0
  /\ Count(r, "recent_remove") = 0
  /\ Count(r, "loaded") = 1
  /\ r.loader = NULL

\* The result of load_cb for any other fatal error that is not a cancellation.
FatalErrorShown(t, r) ==
  /\ r.in_notebook
  /\ Count(r, "remove_tab") = 0
  /\ Count(r, "loaded") = 0
  /\ t.state = GEDIT_TAB_STATE_LOADING =>
       r.state = GEDIT_TAB_STATE_LOADING_ERROR /\ r.info_bar = IoLoadingErrorBar
  /\ t.state = GEDIT_TAB_STATE_REVERTING =>
       r.state = GEDIT_TAB_STATE_REVERTING_ERROR /\ r.info_bar = UnrecoverableRevertingErrorBar

\* An info bar that can only be dismissed: every answer does what cancel does.
DismissOnly(r) ==
  \A response_id \in Responses :
    io_loading_error_info_bar_response(r, response_id) = io_loading_error_info_bar_response(r, "GTK_RESPONSE_CANCEL")

\* C28 as stated: a fatal load error on a file opened with the create flag
\* whose location does not exist removes the tab and shows no info bar; a
\* fatal non-cancelled error on a pre-existing file keeps the tab in
\* LoadingError with a dismiss-only info bar.
C28_NewFileErrorClosesTab ==
  \A op \in gedit_tab.loads, result \in FatalResults, readonly \in BOOLEAN, already_open \in BOOLEAN :
    Tab.state = GEDIT_TAB_STATE_LOADING =>
      LET r == load_cb(Tab, op, result, readonly, already_open)
      IN  /\ (Tab.create /\ result = "not_found") => (~r.in_notebook /\ r.info_bar = NoInfoBar)
          /\ ~Tab.create =>
               /\ r.in_notebook
               /\ r.state = GEDIT_TAB_STATE_LOADING_ERROR
               /\ r.info_bar = IoLoadingErrorBar
               /\ DismissOnly(r)

\* C28: a not-found error on a local file opened with the create flag is
\* taken as success: the tab stays in its pane in Normal, "loaded" is
\* signalled and the document is not registered in recents; every other
\* fatal non-cancelled error keeps the tab in LoadingError (RevertingError
\* for a revert) with the error info bar of that state.
C28_NamedNewDocIsOpened ==
  \A op \in gedit_tab.loads, result \in FatalResults, readonly \in BOOLEAN, already_open \in BOOLEAN :
    Tab.state \in {GEDIT_TAB_STATE_LOADING, GEDIT_TAB_STATE_REVERTING} =>
      LET r == load_cb(Tab, op, result, readonly, already_open)
      IN  IF NamedNewDoc(Tab, result)
            THEN NamedNewDocOpened(Tab, r) /\ (~already_open => r.info_bar = NoInfoBar)
            ELSE FatalErrorShown(Tab, r)

C28_Witness ==
  /\ Tab.state = GEDIT_TAB_STATE_LOADING
  /\ Tab.create
  /\ Tab.location = LocalFile
  /\ \E op \in gedit_tab.loads :
       /\ NamedNewDocOpened(Tab, load_cb(Tab, op, "not_found", FALSE, FALSE))
       /\ FatalErrorShown(Tab, load_cb(Tab, op, "error", FALSE, FALSE))

\* ---------------------------------------------------------------------
\* Conversion fallback of a load or a revert (load_cb).

FallbackCompleted(r) ==
  /\ r.in_notebook
  /\ Count(r, "remove_tab") = 0
  /\ r.state = GEDIT_TAB_STATE_NORMAL
  /\ Count(r, "recent_add") = 1
  /\ Count(r, "recent_remove") = 0
  /\ Count(r, "loaded") = 1
  /\ ~r.editable
  /\ ~r.view_editable
  /\ r.info_bar \in {IoLoadingErrorBar, FileAlreadyOpenBar}

\* C29: a load or a revert that completes with the conversion-fallback
\* result is treated as success: the tab ends in Normal, the document is
\* registered in recents, "loaded" is signalled, the editable flag is
\* cleared so that the view is not editable, and an info bar is shown.
C29_FallbackIsSuccess ==
  \A op \in gedit_tab.loads, readonly \in BOOLEAN, already_open \in BOOLEAN :
    Tab.state \in {GEDIT_TAB_STATE_LOADING, GEDIT_TAB_STATE_REVERTING} =>
      LET r == load_cb(Tab, op, "fallback", readonly, already_open)
      IN  /\ FallbackCompleted(r)
          /\ (~already_open \/ readonly) => r.info_bar = IoLoadingErrorBar

C29_Witness ==
  /\ Tab.state = GEDIT_TAB_STATE_REVERTING
  /\ Tab.editable
  /\ Tab.info_bar = NoInfoBar
  /\ \E op \in gedit_tab.loads :
       LET r == load_cb(Tab, op, "fallback", FALSE, FALSE)
       IN  FallbackCompleted(r) /\ r.info_bar = IoLoadingErrorBar

\* ---------------------------------------------------------------------
\* Notification of a file modified outside the editor (view_focused_in,
\* externally_modified_notification_info_bar_response).

Notified(t) == t.state = GEDIT_TAB_STATE_EXTERNALLY_MODIFIED_NOTIFICATION

\* What a focus-in of the view does in the current state.
FocusInChecksInNormalOnly ==
  \A externally_modified \in BOOLEAN, readonly \in BOOLEAN :
    LET r == view_focused_in(Tab, externally_modified, readonly)
    IN  /\ (Tab.state # GEDIT_TAB_STATE_NORMAL \/ ~Tab.ask_if_externally_modified) => r = Tab
        /\ (Tab.state = GEDIT_TAB_STATE_NORMAL /\ Tab.ask_if_externally_modified
              /\ gedit_document_is_local(Tab) /\ externally_modified) =>
             (Notified(r) /\ r.info_bar = ExternallyModifiedBar)
        /\ (Notified(r) /\ ~Notified(Tab)) => (Tab.state = GEDIT_TAB_STATE_NORMAL /\ externally_modified)

\* What the two answers to the notification do.
NotificationAnswers ==
  (Notified(Tab) /\ Tab.info_bar = ExternallyModifiedBar /\ CanLoad) =>
    LET ok     == externally_modified_notification_info_bar_response(Tab, "GTK_RESPONSE_OK")
        ignore == externally_modified_notification_info_bar_response(Tab, "GTK_RESPONSE_CANCEL")
    IN  /\ ok.state = GEDIT_TAB_STATE_REVERTING
        /\ ok.loads # {}
        /\ ignore.state = GEDIT_TAB_STATE_NORMAL
        /\ ignore.loads = Tab.loads
        /\ ~ignore.ask_if_externally_modified
        /\ ignore.info_bar = NoInfoBar

\* A step that presents the notification starts in Normal with the
\* question still allowed.
NotificationStep ==
  (Notified(gedit_tab') /\ ~Notified(gedit_tab)) =>
    /\ gedit_tab.state = GEDIT_TAB_STATE_NORMAL
    /\ gedit_tab.ask_if_externally_modified
    /\ gedit_tab'.info_bar = ExternallyModifiedBar

\* A step after which the question is allowed again, in a tab that stays.
AskedAgain == ~gedit_tab.ask_if_externally_modified /\ gedit_tab'.ask_if_externally_modified /\ gedit_tab'.in_notebook

\* C30 as stated: the check is made on focus-in in Normal only and leads to
\* ExternallyModifiedNotification with the revert/ignore info bar; after
\* the answer "ignore" no notification is presented until a load or a
\* revert has completed successfully.
C30_IgnoredUntilReload ==
  /\ [](FocusInChecksInNormalOnly /\ NotificationAnswers)
  /\ [][NotificationStep]_vars
  /\ [][AskedAgain =>
          /\ gedit_tab.state \in {GEDIT_TAB_STATE_LOADING, GEDIT_TAB_STATE_REVERTING}
          /\ gedit_tab'.state = GEDIT_TAB_STATE_NORMAL]_vars

\* C30: the check is made on focus-in in Normal only and leads to
\* ExternallyModifiedNotification with the revert/ignore info bar; after
\* the answer "ignore" no notification is presented until a load, a revert
\* or a save has completed successfully.
C30_IgnoredUntilReloadOrSave ==
  /\ [](FocusInChecksInNormalOnly /\ NotificationAnswers)
  /\ [][NotificationStep]_vars
  /\ [][AskedAgain =>
          /\ gedit_tab.state \in {GEDIT_TAB_STATE_LOADING, GEDIT_TAB_STATE_REVERTING, GEDIT_TAB_STATE_SAVING}
          /\ gedit_tab'.state = GEDIT_TAB_STATE_NORMAL]_vars

C30_Witness ==
  /\ Tab.state = GEDIT_TAB_STATE_NORMAL
  /\ ~Tab.ask_if_externally_modified
  /\ gedit_document_is_local(Tab)
  /\ Tab.loads = {}
  /\ ~Tab.saving
  /\ view_focused_in(Tab, TRUE, FALSE) = Tab

\* ---------------------------------------------------------------------
\* The flags of a save and of its retries (response_set_save_flags and the
\* responses of the saving-error info bars).

SavingErrorBars == {ExternallyModifiedSavingErrorBar, NoBackupSavingErrorBar, InvalidCharacterBar, UnrecoverableSavingErrorBar, ConversionErrorWhileSavingBar}

\* The handler connected to the saving-error info bar that is shown.
SavingErrorAnswer(t, response_id, create_backup) ==
  CASE t.info_bar = ExternallyModifiedSavingErrorBar -> externally_modified_error_info_bar_response(t, response_id, create_backup)
    [] t.info_bar = NoBackupSavingErrorBar -> no_backup_error_info_bar_response(t, response_id, create_backup)
    [] t.info_bar = InvalidCharacterBar -> invalid_character_info_bar_response(t, response_id, create_backup)
    [] t.info_bar = UnrecoverableSavingErrorBar -> unrecoverable_saving_error_info_bar_response(t, response_id)
    [] OTHER -> recoverable_saving_error_info_bar_response(t, response_id)

NoBackupAsked(r) == \A flags \in SaverFlags(r) : GTK_SOURCE_FILE_SAVER_FLAGS_CREATE_BACKUP \notin flags

\* The requests that start a save operation start it with the flag clear.
NewSaveStartsWithBackupAllowed ==
  \A create_backup \in BOOLEAN, location \in FileLocations :
    /\ gedit_tab_save_async(Tab, create_backup).task_saver => (Tab.task_saver \/ ~gedit_tab_save_async(Tab, create_backup).force_no_backup)
    /\ gedit_tab_save_as_async(Tab, location, create_backup).task_saver => (Tab.task_saver \/ ~gedit_tab_save_as_async(Tab, location, create_backup).force_no_backup)
    /\ gedit_tab_auto_save(Tab, create_backup).task_saver => (Tab.task_saver \/ ~gedit_tab_auto_save(Tab, create_backup).force_no_backup)

\* C31: once the user has chosen to save without the backup, the saver of
\* that operation never holds CREATE_BACKUP again and no retry passes it,
\* whatever the setting and the answers are, and the choice lasts as long
\* as the operation; a new save, save-as or auto-save starts with
\* force_no_backup clear.
C31_NoBackupIsKept ==
  /\ [](gedit_tab.force_no_backup => (gedit_tab.task_saver /\ GTK_SOURCE_FILE_SAVER_FLAGS_CREATE_BACKUP \notin gedit_tab.saver_flags))
  /\ [](\A response_id \in Responses, create_backup \in BOOLEAN :
          gedit_tab.info_bar \in SavingErrorBars =>
            LET r == SavingErrorAnswer(Tab, response_id, create_backup)
            IN  /\ Tab.force_no_backup => (NoBackupAsked(r) /\ (r.task_saver => r.force_no_backup))
                /\ (gedit_tab.info_bar = NoBackupSavingErrorBar /\ response_id = "GTK_RESPONSE_YES" /\ Tab.task_saver) =>
                     (r.force_no_backup /\ NoBackupAsked(r)))
  /\ []NewSaveStartsWithBackupAllowed
  /\ [][(gedit_tab.force_no_backup /\ gedit_tab'.task_saver) => gedit_tab'.force_no_backup]_vars

\* The user has chosen to save without the backup, the retry has failed on
\* another error, and the answer to that error launches a save while the
\* setting asks for backups.
C31_Witness ==
  /\ Tab.force_no_backup
  /\ Tab.info_bar = ExternallyModifiedSavingErrorBar
  /\ SaverFlags(SavingErrorAnswer(Tab, "GTK_RESPONSE_YES", TRUE)) # {}
  /\ NoBackupAsked(SavingErrorAnswer(Tab, "GTK_RESPONSE_YES", TRUE))

\* ---------------------------------------------------------------------
\* The long-lived save flags of the tab (priv->save_flags).

\* What the answers to the saving-error info bars do to the long-lived flags.
AnswersKeepLongLivedFlags ==
  \A response_id \in Responses, create_backup \in BOOLEAN :
    gedit_tab.info_bar \in SavingErrorBars =>
      LET r == SavingErrorAnswer(Tab, response_id, create_backup)
          forced == Tab.info_bar = InvalidCharacterBar /\ response_id = "GTK_RESPONSE_YES" /\ Tab.task_saver
      IN  r.save_flags = IF forced THEN Tab.save_flags \cup {GTK_SOURCE_FILE_SAVER_FLAGS_IGNORE_INVALID_CHARS} ELSE Tab.save_flags

\* What the requests for a save do with the long-lived flags.
RequestsUseLongLivedFlags ==
  \A create_backup \in BOOLEAN, location \in FileLocations :
    LET s  == gedit_tab_save_async(Tab, create_backup)
        sa == gedit_tab_save_as_async(Tab, location, create_backup)
        a  == gedit_tab_auto_save(Tab, create_backup)
    IN  /\ s.save_flags = Tab.save_flags
        /\ a.save_flags = Tab.save_flags
        /\ \A flags \in SaverFlags(s) \cup SaverFlags(a) : Tab.save_flags \subseteq flags
        /\ \A flags \in SaverFlags(s) :
             (GTK_SOURCE_FILE_SAVER_FLAGS_IGNORE_MODIFICATION_TIME \in flags) = Notified(Tab)
        /\ \A flags \in SaverFlags(a) : GTK_SOURCE_FILE_SAVER_FLAGS_IGNORE_MODIFICATION_TIME \notin flags
        /\ IF sa.task_saver /\ ~Tab.task_saver
             THEN sa.save_flags = GTK_SOURCE_FILE_SAVER_FLAGS_NONE
             ELSE sa.save_flags = Tab.save_flags
        /\ \A flags \in SaverFlags(sa) :
             /\ GTK_SOURCE_FILE_SAVER_FLAGS_IGNORE_INVALID_CHARS \notin flags
             /\ (GTK_SOURCE_FILE_SAVER_FLAGS_IGNORE_MODIFICATION_TIME \in flags) = Notified(Tab)

\* C32: the long-lived save flags hold nothing but IGNORE_INVALID_CHARS,
\* which only the forced save over invalid characters adds and which every
\* later save and auto-save starts with; save-as resets them to none; the
\* forced overwrite of an externally modified file leaves them alone, so
\* that the next save does not start with IGNORE_MODIFICATION_TIME.
C32_LongLivedSaveFlags ==
  /\ gedit_tab.save_flags \subseteq {GTK_SOURCE_FILE_SAVER_FLAGS_IGNORE_INVALID_CHARS}
  /\ AnswersKeepLongLivedFlags
  /\ RequestsUseLongLivedFlags

\* The user has forced a save over invalid characters, the retry has met
\* an external modification, and the forced overwrite launches a save with
\* both overrides while the long-lived flags keep only the first.
C32_Witness ==
  /\ Tab.save_flags = {GTK_SOURCE_FILE_SAVER_FLAGS_IGNORE_INVALID_CHARS}
  /\ Tab.info_bar = ExternallyModifiedSavingErrorBar
  /\ LET r == SavingErrorAnswer(Tab, "GTK_RESPONSE_YES", TRUE)
     IN  /\ r.save_flags = Tab.save_flags
         /\ \E flags \in SaverFlags(r) :
              {GTK_SOURCE_FILE_SAVER_FLAGS_IGNORE_INVALID_CHARS, GTK_SOURCE_FILE_SAVER_FLAGS_IGNORE_MODIFICATION_TIME} \subseteq flags

\* ---------------------------------------------------------------------
\* The backup bit of a retried save.

BackupAsSettingSays(r, create_backup) ==
  \A flags \in SaverFlags(r) :
    (GTK_SOURCE_FILE_SAVER_FLAGS_CREATE_BACKUP \in flags) = (create_backup /\ ~r.force_no_backup)

\* C33: every save retried from a saving-error info bar (forced overwrite,
\* no backup, invalid characters ignored, another encoding) is handed to
\* the saver with CREATE_BACKUP exactly when the setting is on and
\* force_no_backup is clear, also when the operation began as an auto-save.
C33_RetryRecomputesBackup ==
  \A response_id \in Responses, create_backup \in BOOLEAN :
    gedit_tab.info_bar \in SavingErrorBars =>
      BackupAsSettingSays(SavingErrorAnswer(Tab, response_id, create_backup), create_backup)

\* ---------------------------------------------------------------------
\* The active tab and the active notebook.

\* C35: after every operation and every handled event the active tab, when
\* there is one, is a page of the active notebook.
C35_ActiveTabInActiveNotebook ==
  active_tab # NULL =>
    /\ active_notebook \in Range(notebooks)
    /\ active_tab \in Range(pages[active_notebook])

\* ---------------------------------------------------------------------
\* The loader and the task of the saver against the state of the tab.

\* C34: the tab holds a loader exactly while its state is Loading or
\* Reverting, and a task of the saver (with its force_no_backup flag)
\* exactly while its state is Saving.
C34_HandlesFollowState ==
  gedit_tab.in_notebook =>
    /\ (gedit_tab.loader # NULL) = (gedit_tab.state \in {GEDIT_TAB_STATE_LOADING, GEDIT_TAB_STATE_REVERTING})
    /\ gedit_tab.task_saver = (gedit_tab.state = GEDIT_TAB_STATE_SAVING)
    /\ gedit_tab.force_no_backup => gedit_tab.state = GEDIT_TAB_STATE_SAVING

\* ---------------------------------------------------------------------
\* The info bar of the states that wait for an answer.

\* The info bars whose handler leads out of the state.
ExitBars(state) ==
  CASE state = GEDIT_TAB_STATE_LOADING_ERROR -> {IoLoadingErrorBar}
    [] state = GEDIT_TAB_STATE_REVERTING_ERROR -> {UnrecoverableRevertingErrorBar}
    [] state = GEDIT_TAB_STATE_SAVING_ERROR -> SavingErrorBars
    [] state = GEDIT_TAB_STATE_EXTERNALLY_MODIFIED_NOTIFICATION -> {ExternallyModifiedBar}
    [] OTHER -> {}

WaitingStates == {GEDIT_TAB_STATE_LOADING_ERROR, GEDIT_TAB_STATE_REVERTING_ERROR, GEDIT_TAB_STATE_SAVING_ERROR, GEDIT_TAB_STATE_EXTERNALLY_MODIFIED_NOTIFICATION}

\* C36: whenever the tab is in LoadingError, RevertingError, SavingError or
\* ExternallyModifiedNotification, the info bar through which the user
\* answers is shown, whatever answers, changes of the network and info
\* bars set from outside came before.
C36_WaitingStateHasInfoBar ==
  (gedit_tab.in_notebook /\ gedit_tab.state \in WaitingStates) =>
    gedit_tab.info_bar \in ExitBars(gedit_tab.state)

\* ---------------------------------------------------------------------
\* Printing (_gedit_tab_print, show_preview_cb, done_printing_cb,
\* close_printing).

PrintJobResults == {"GEDIT_PRINT_JOB_RESULT_OK", "GEDIT_PRINT_JOB_RESULT_CANCEL", "GEDIT_PRINT_JOB_RESULT_ERROR"}

PrintStates == {GEDIT_TAB_STATE_PRINTING, GEDIT_TAB_STATE_PRINT_PREVIEWING, GEDIT_TAB_STATE_SHOWING_PRINT_PREVIEW}

\* "done" returns the tab to Normal, with the job and the preview gone and
\* the settings stored on success only.
DoneClosesPrinting ==
  gedit_tab.state \in PrintStates =>
    \A result \in PrintJobResults :
      LET r == done_printing_cb(Tab, result)
      IN  /\ r.state = GEDIT_TAB_STATE_NORMAL
          /\ ~r.print_job
          /\ ~r.print_preview
          /\ r.info_bar = NoInfoBar
          /\ Count(r, "store_print_settings") = IF result = "GEDIT_PRINT_JOB_RESULT_OK" THEN 1 ELSE 0

\* The print job exists exactly in the states of printing, the preview
\* exactly in ShowingPrintPreview.
PrintJobFollowsState ==
  gedit_tab.in_notebook =>
    /\ gedit_tab.print_job = (gedit_tab.state \in PrintStates)
    /\ gedit_tab.print_preview = (gedit_tab.state = GEDIT_TAB_STATE_SHOWING_PRINT_PREVIEW)

\* A save or save-as accepted in ShowingPrintPreview closes the preview.
SaveClosesPreview ==
  (gedit_tab.state = GEDIT_TAB_STATE_SHOWING_PRINT_PREVIEW /\ ~gedit_tab.task_saver) =>
    \A create_backup \in BOOLEAN, location \in FileLocations :
      LET s  == gedit_tab_save_async(Tab, create_backup)
          sa == gedit_tab_save_as_async(Tab, location, create_backup)
      IN  /\ ~s.print_preview /\ ~s.print_job
          /\ s.state = IF gedit_document_is_untitled(Tab) THEN GEDIT_TAB_STATE_NORMAL ELSE GEDIT_TAB_STATE_SAVING
          /\ ~sa.print_preview /\ ~sa.print_job
          /\ sa.state = GEDIT_TAB_STATE_SAVING

\* C37 as stated: "show-preview" in Printing takes the tab through
\* PrintPreviewing to ShowingPrintPreview with the preview embedded; "done"
\* returns it to Normal with the job and the preview disposed and the
\* settings stored on success only; the print job exists exactly in
\* Printing, PrintPreviewing and ShowingPrintPreview; a save requested in
\* ShowingPrintPreview first closes the preview.
C37_PrintLifecycle ==
  /\ (gedit_tab.state = GEDIT_TAB_STATE_PRINTING /\ ~gedit_tab.print_preview) =>
       LET r == show_preview_cb(Tab)
       IN  /\ r.state = GEDIT_TAB_STATE_SHOWING_PRINT_PREVIEW
           /\ r.print_preview
           /\ GEDIT_TAB_STATE_PRINT_PREVIEWING \in LoggedArgs(r, "notify::state")
  /\ DoneClosesPrinting
  /\ PrintJobFollowsState
  /\ gedit_tab.state = GEDIT_TAB_STATE_SHOWING_PRINT_PREVIEW =>
       \A create_backup \in BOOLEAN, location \in FileLocations :
         /\ ~gedit_tab_save_async(Tab, create_backup).print_preview
         /\ ~gedit_tab_save_as_async(Tab, location, create_backup).print_preview

\* C37: "show-preview" in Printing takes the tab straight to
\* ShowingPrintPreview with the preview embedded, and PrintPreviewing is
\* never entered; "done" returns the tab to Normal with the job and the
\* preview disposed and the settings stored on success only; the print job
\* exists exactly in Printing and ShowingPrintPreview; a save accepted in
\* ShowingPrintPreview (no task of a saver pending) first closes the preview.
C37_PrintLifecycleWithoutPreviewing ==
  /\ gedit_tab.state # GEDIT_TAB_STATE_PRINT_PREVIEWING
  /\ (gedit_tab.state = GEDIT_TAB_STATE_PRINTING /\ ~gedit_tab.print_preview) =>
       LET r == show_preview_cb(Tab)
       IN  /\ r.state = GEDIT_TAB_STATE_SHOWING_PRINT_PREVIEW
           /\ r.print_preview
           /\ r.print_job
           /\ r.info_bar = NoInfoBar
           /\ LoggedArgs(r, "notify::state") = {GEDIT_TAB_STATE_SHOWING_PRINT_PREVIEW}
  /\ DoneClosesPrinting
  /\ PrintJobFollowsState
  /\ SaveClosesPreview

\* A print job is running, its preview is not shown yet, and
\* "show-preview" now embeds it; "done" would close the job.
C37_Witness ==
  /\ Tab.state = GEDIT_TAB_STATE_PRINTING
  /\ Tab.print_job
  /\ ~Tab.print_preview
  /\ show_preview_cb(Tab).state = GEDIT_TAB_STATE_SHOWING_PRINT_PREVIEW
  /\ done_printing_cb(Tab, "GEDIT_PRINT_JOB_RESULT_OK").state = GEDIT_TAB_STATE_NORMAL

\* ---------------------------------------------------------------------
\* The order of the signals when the removal of a tab empties a notebook.

\* The tab-removed emissions of the last call for a notebook that the call
\* has removed from the list because it became empty.
TabRemovedFromEmptied ==
  {j \in Events("tab-removed") : emitted[j].notebook \in Removed /\ emitted[j].seen.n_pages[emitted[j].notebook] = 0}

\* C38: when the removal of a tab empties a notebook and so removes the
\* notebook, notebook-removed is emitted before tab-removed, and the
\* observer of tab-removed sees a list without the notebook and a counter
\* of tabs that is already decremented.
C38_NotebookRemovedBeforeTabRemoved ==
  called.op \in {"remove_tab", "close_tabs", "close_all_tabs"} =>
    /\ \A j \in TabRemovedFromEmptied :
         /\ \E i \in Events("notebook-removed") : i < j /\ emitted[i].notebook = emitted[j].notebook
         /\ emitted[j].notebook \notin Range(emitted[j].seen.notebooks)
         /\ emitted[j].seen.total_tabs = SumCounts(emitted[j].seen.n_pages, emitted[j].seen.notebooks)
         /\ emitted[j].seen.total_tabs < called.pre.total_tabs
    /\ (called.op = "remove_tab" /\ called.notebook \in Removed) =>
         /\ TabRemovedFromEmptied # {}
         /\ \A j \in Events("tab-removed") :
              /\ emitted[j].tab = called.tab
              /\ emitted[j].seen.total_tabs = called.pre.total_tabs - 1

\* A tab was removed, its notebook went with it, and other tabs remain.
C38_Witness ==
  /\ called.op = "remove_tab"
  /\ called.notebook \in Removed
  /\ total_tabs > 0
  /\ \E i \in Events("notebook-removed"), j \in Events("tab-removed") : i < j

\* ---------------------------------------------------------------------
\* The list of notebooks, the active notebook and the removal flag.

\* C39: after every operation and every handled event the list of
\* notebooks is not empty, the active notebook is in the list, so that
\* previous and next find it there, and removing_notebook is false.
C39_ActiveNotebookInList ==
  /\ notebooks # <<>>
  /\ active_notebook \in Range(notebooks)
  /\ ~removing_notebook

\* ---------------------------------------------------------------------
\* The editable flag of the tab.

\* The info bars whose YES answer means "edit anyway".
EditAnywayBars == {IoLoadingErrorBar, FileAlreadyOpenBar}

\* A new tab is editable.
EditableAtCreation ==
  \A auto_save \in BOOLEAN, lockdown \in BOOLEAN, interval \in 0..MaxInterval :
    gedit_tab_init(auto_save, lockdown, interval).editable

\* No completion of a load or of a revert makes the tab editable, and the
\* two info bars make it editable by their YES answer only.
OnlyEditAnywayRestores ==
  /\ \A op \in gedit_tab.loads, result \in LoadResults, readonly \in BOOLEAN, already_open \in BOOLEAN :
       LET r == load_cb(Tab, op, result, readonly, already_open)
       IN  /\ (r.in_notebook /\ r.editable) => Tab.editable
           /\ (Tab.editable /\ r.in_notebook /\ ~r.editable) =>
                /\ result = "fallback" \/ already_open
                /\ r.state = GEDIT_TAB_STATE_NORMAL
                /\ r.info_bar \in EditAnywayBars
  /\ \A response_id \in Responses :
       LET r == io_loading_error_info_bar_response(Tab, response_id)
           w == file_already_open_warning_info_bar_response(Tab, response_id)
       IN  /\ (r.in_notebook /\ response_id # "GTK_RESPONSE_YES") => r.editable = Tab.editable
           /\ response_id # "GTK_RESPONSE_YES" => w.editable = Tab.editable
           /\ response_id = "GTK_RESPONSE_YES" => w.editable
           /\ (response_id = "GTK_RESPONSE_YES" /\ Tab.loader # NULL) => r.editable

\* A step that clears the flag is the completion of a load or of a revert
\* that shows one of the two info bars.
EditableCleared ==
  (gedit_tab.editable /\ ~gedit_tab'.editable) =>
    /\ gedit_tab.state \in {GEDIT_TAB_STATE_LOADING, GEDIT_TAB_STATE_REVERTING}
    /\ gedit_tab'.state = GEDIT_TAB_STATE_NORMAL
    /\ gedit_tab'.info_bar \in EditAnywayBars

\* A step that sets the flag again, in a tab that stays, is an answer to one
\* of the two info bars: the bar goes and the state stays.
EditableRestored ==
  (~gedit_tab.editable /\ gedit_tab'.editable /\ gedit_tab'.in_notebook) =>
    /\ gedit_tab.info_bar \in EditAnywayBars
    /\ gedit_tab'.info_bar = NoInfoBar
    /\ gedit_tab'.state = gedit_tab.state

\* C40: the editable flag is TRUE in a new tab, is cleared only by a load
\* completing with the conversion fallback or finding the file open in
\* another tab, and is set again only by the YES answer of the info bar: no
\* completion of a load or of a revert sets it, not even the one of a retry
\* with another encoding that ends without error.
C40_EditableFlag ==
  /\ [](EditableAtCreation /\ OnlyEditAnywayRestores)
  /\ [][EditableCleared /\ EditableRestored]_vars

\* A tab made not editable by a fallback is loading again after the retry:
\* the load ends without error in Normal and the tab is still not editable,
\* while the YES answer of a bar makes it editable.
C40_Witness ==
  /\ Tab.state = GEDIT_TAB_STATE_LOADING
  /\ ~Tab.editable
  /\ Tab.info_bar = NoInfoBar
  /\ \E op \in gedit_tab.loads :
       LET r == load_cb(Tab, op, "ok", FALSE, FALSE)
       IN  r.state = GEDIT_TAB_STATE_NORMAL /\ ~r.editable /\ r.info_bar = NoInfoBar

====
